---- MODULE Spec2Model ----
(***************************************************************************)
(* A model of the brave_agent command pipeline: the session manager        *)
(* (session_manager.py), the gateway client wrapper (brave_client.py),     *)
(* the schema utilities (schema_utils.py) and the call dispatch of the     *)
(* chat handler (chat_handler.py).                                         *)
(*                                                                         *)
(* Each message is handled by an asyncio task.  A task runs alone until it *)
(* awaits network I/O of the fastmcp client (__aenter__, __aexit__,        *)
(* list_tools, call_tool), so each action is the code from one such await  *)
(* to the next.  The labels in pc name the await a task is suspended at.   *)
(***************************************************************************)
EXTENDS Integers, Sequences, FiniteSets, TLC

\* ---------------------------------------------------------------- bounds
NTasks == 2
MaxLive == 2
MaxDelivered == 3

Tasks == 1..NTasks

\* ------------------------------------------------------------ Python values
None == "<None>"
NoSession == 0
NoConn == 0
EmptyDict == [k \in {} |-> None]

\* Python truthiness of an Optional[str]
Truthy(s) == s # None /\ s # ""

\* ------------------------------------------------------------------ inputs
UrlA == "http://a"
UrlB == "http://b"
UrlNoNetloc == "http:///x"
UrlBadIPv6 == "http://[x"
Urls == {"", UrlA, UrlB, UrlNoNetloc, UrlBadIPv6}
Tokens == {None, "tok"}
ToolNames == {"search", "local", "geo", "raw", "bad", "loose", "anon"}
ArgSets == {EmptyDict, [q |-> "x"], [count |-> "5"], [q |-> "x", count |-> "5"]}
EnvVarNames == {None, "BRAVE_TOKEN", "EMPTY_VAR", "UNSET_VAR"}

\* os.environ of the process
Environ == [BRAVE_TOKEN |-> "envtok", EMPTY_VAR |-> ""]

\* os.environ.get(name)
EnvGet(name) == IF name \in DOMAIN Environ THEN Environ[name] ELSE None

\* urllib.parse.urlparse on the modelled URLs (none has surrounding blanks,
\* so url.strip() leaves them as they are); "raise" is the ValueError
\* urlparse raises on an unbalanced IPv6 bracket.
UrlParse(u) ==
  CASE u = UrlA -> [exc |-> FALSE, scheme |-> "http", netloc |-> "a"]
    [] u = UrlB -> [exc |-> FALSE, scheme |-> "http", netloc |-> "b"]
    [] u = UrlNoNetloc -> [exc |-> FALSE, scheme |-> "http", netloc |-> ""]
    [] u = UrlBadIPv6 -> [exc |-> TRUE, scheme |-> "", netloc |-> ""]
    [] OTHER -> [exc |-> FALSE, scheme |-> "", netloc |-> ""]

\* ------------------------------------------------------ command_parser.py
\* A text is the sequence of its characters.
Digits == {"0", "1", "2", "3", "4", "5", "6", "7", "8", "9"}
Letters == {"a", "b", "c", "d", "e", "f", "g", "h", "i", "j", "k", "l", "m",
            "n", "o", "p", "q", "r", "s", "t", "u", "v", "w", "x", "y", "z",
            "A", "E", "F", "L", "R", "S", "T", "U"}

\* the characters \s matches, and \w
IsSpace(ch) == ch \in {" ", "\t", "\n"}
IsWord(ch) == ch \in Letters \cup Digits \cup {"_"}

\* str.strip()
RECURSIVE lstrip(_)
lstrip(s) == IF s # <<>> /\ IsSpace(Head(s)) THEN lstrip(Tail(s)) ELSE s
RECURSIVE rstrip(_)
rstrip(s) == IF s # <<>> /\ IsSpace(s[Len(s)]) THEN rstrip(SubSeq(s, 1, Len(s) - 1))
             ELSE s
strip(s) == rstrip(lstrip(s))

\* str.startswith
startswith(s, prefix) ==
  Len(prefix) <= Len(s) /\ SubSeq(s, 1, Len(prefix)) = prefix

\* the length of the longest prefix of s without a blank (a \S* run)
RECURSIVE RunLen(_)
RunLen(s) == IF s = <<>> \/ IsSpace(Head(s)) THEN 0 ELSE 1 + RunLen(Tail(s))

\* str.split(): the maximal runs of non-blank characters
RECURSIVE split(_)
split(s) ==
  LET t == lstrip(s)
      n == RunLen(t)
  IN IF t = <<>> THEN <<>>
     ELSE <<SubSeq(t, 1, n)>> \o split(SubSeq(t, n + 1, Len(t)))

\* what is left of a stripped text after its first n words and the blanks
\* that follow them: the text the (.+) of a pattern ^!cmd\s+(\S+)\s+(.+)$
\* has to match
RECURSIVE AfterWords(_, _)
AfterWords(s, n) ==
  IF n = 0 THEN s
  ELSE LET t == lstrip(s)
       IN AfterWords(lstrip(SubSeq(t, RunLen(t) + 1, Len(t))), n - 1)

COMMAND_PREFIX == <<"!">>

\* the words of the command patterns (command_patterns, lines 32-41)
W_connect == <<"!", "c", "o", "n", "n", "e", "c", "t">>
W_disconnect == <<"!", "d", "i", "s", "c", "o", "n", "n", "e", "c", "t">>
W_list == <<"!", "l", "i", "s", "t">>
W_call == <<"!", "c", "a", "l", "l">>
W_shorthand == <<"!", "s", "h", "o", "r", "t", "h", "a", "n", "d">>
W_status == <<"!", "s", "t", "a", "t", "u", "s">>
W_help == <<"!", "h", "e", "l", "p">>
W_schema == <<"!", "s", "c", "h", "e", "m", "a">>
W_unknown == <<"!", "u", "n", "k", "n", "o", "w", "n">>
OptToken == <<"-", "-", "t", "o", "k", "e", "n">>
OptTokenEnvVar == <<"-", "-", "t", "o", "k", "e", "n", "-", "e", "n", "v", "-", "v", "a", "r">>
SchemeHttp == <<"h", "t", "t", "p", ":", "/", "/">>
SchemeHttps == <<"h", "t", "t", "p", "s", ":", "/", "/">>

\* ParsedCommand.__init__, lines 19-23 (args or [], kwargs or {}); exc is
\* the exception the parse raised instead of returning, if any
ParsedCommand(command_type, args, kwargs) ==
  [exc |-> "none", type |-> command_type, args |-> args, kwargs |-> kwargs]
Unknown == ParsedCommand("unknown", <<>>, EmptyDict)
ParseRaised(e) == [exc |-> e, type |-> "none", args |-> <<>>, kwargs |-> EmptyDict]

\* CommandType(cmd), line 53: the member with that value, or ValueError
CommandType(word) ==
  CASE word = Tail(W_connect) -> "connect"
    [] word = Tail(W_disconnect) -> "disconnect"
    [] word = Tail(W_list) -> "list"
    [] word = Tail(W_call) -> "call"
    [] word = Tail(W_shorthand) -> "shorthand"
    [] word = Tail(W_status) -> "status"
    [] word = Tail(W_help) -> "help"
    [] word = Tail(W_schema) -> "schema"
    [] word = Tail(W_unknown) -> "unknown"
    [] OTHER -> "ValueError"

\* an is_command that takes every text that is not blank for a command
is_command_AnyText(message) == strip(message) # <<>>

\* is_command, lines 43-44
is_command(message) == startswith(strip(message), COMMAND_PREFIX)

\* https?://[^\s]+ on a word
MatchesUrl(w) ==
  \/ startswith(w, SchemeHttp) /\ Len(w) > Len(SchemeHttp)
  \/ startswith(w, SchemeHttps) /\ Len(w) > Len(SchemeHttps)

\* _parse_connect_command, lines 71-85. The pattern
\* ^!connect\s+(https?://[^\s]+)(?:\s+--token\s+(\S+))?(?:\s+--token-env-var\s+(\S+))?$
\* matches a stripped message exactly when its words are !connect, a URL
\* and then nothing, a token option, an env-var option, or both in order
parse_connect_command(message) ==
  LET w == split(message)
      n == Len(w)
      url == [url |-> w[2]]
  IN IF n < 2 \/ w[1] # W_connect \/ ~MatchesUrl(w[2])
     THEN Unknown
     ELSE IF n = 2 THEN ParsedCommand("connect", <<>>, url)
     ELSE IF n = 4 /\ w[3] = OptToken
     THEN ParsedCommand("connect", <<>>, [url |-> w[2], token |-> w[4]])
     ELSE IF n = 4 /\ w[3] = OptTokenEnvVar
     THEN ParsedCommand("connect", <<>>, [url |-> w[2], token_env_var |-> w[4]])
     ELSE IF n = 6 /\ w[3] = OptToken /\ w[5] = OptTokenEnvVar
     THEN ParsedCommand("connect", <<>>,
                        [url |-> w[2], token |-> w[4], token_env_var |-> w[6]])
     ELSE Unknown

\* the texts of JSON values
JsonEmptyObject == <<"{", "}">>
JsonObjectQ == <<"{", "\"", "q", "\"", ":", " ", "\"", "x", "\"", "}">>
JsonObjectQCount == <<"{", "\"", "q", "\"", ":", " ", "\"", "x", "\"", ",", " ", "\"", "c", "o", "u", "n", "t", "\"", ":", " ", "\"", "5", "\"", "}">>
JsonArray == <<"[", "1", "]">>
JsonNumber == <<"5">>
JsonString == <<"\"", "s", "\"">>
JsonTrue == <<"t", "r", "u", "e">>
JsonNull == <<"n", "u", "l", "l">>

\* json.loads on the modelled texts: the kind of the decoded value, and the
\* dictionary when it is an object; any other text fails to decode
JsonLoads(s) ==
  CASE s = JsonEmptyObject -> [exc |-> "none", kind |-> "dict", val |-> EmptyDict]
    [] s = JsonObjectQ -> [exc |-> "none", kind |-> "dict", val |-> [q |-> "x"]]
    [] s = JsonObjectQCount ->
         [exc |-> "none", kind |-> "dict", val |-> [q |-> "x", count |-> "5"]]
    [] s = JsonArray -> [exc |-> "none", kind |-> "list", val |-> EmptyDict]
    [] s = JsonNumber -> [exc |-> "none", kind |-> "int", val |-> EmptyDict]
    [] s = JsonString -> [exc |-> "none", kind |-> "str", val |-> EmptyDict]
    [] s = JsonTrue -> [exc |-> "none", kind |-> "bool", val |-> EmptyDict]
    [] s = JsonNull -> [exc |-> "none", kind |-> "NoneType", val |-> EmptyDict]
    [] OTHER -> [exc |-> "JSONDecodeError", kind |-> "none", val |-> EmptyDict]

\* the pattern ^!call\s+(\S+)\s+(.+)$ (and the one of !shorthand) matches a
\* stripped message of at least three words whose text from the third word
\* on has no line break
MatchesToolArgs(message, first) ==
  LET w == split(message)
  IN /\ Len(w) >= 3
     /\ w[1] = first
     /\ \A i \in DOMAIN AfterWords(message, 2) : AfterWords(message, 2)[i] # "\n"

\* _parse_call_command, lines 87-108: the ValueError raised for a decoded
\* value that is not a dict is not a JSONDecodeError and leaves the function
parse_call_command(message) ==
  IF ~MatchesToolArgs(message, W_call) THEN Unknown
  ELSE LET tool_name == split(message)[2]
           decoded == JsonLoads(AfterWords(message, 2))
       IN IF decoded.exc = "JSONDecodeError"
          THEN ParsedCommand("unknown", <<>>, [error |-> "Invalid JSON arguments"])
          ELSE IF decoded.kind # "dict"
          THEN ParseRaised("ValueError")
          ELSE ParsedCommand("call", <<tool_name>>, [args |-> decoded.val])

\* the length of the longest prefix of s made of \w characters
RECURSIVE WordRun(_)
WordRun(s) == IF s = <<>> \/ ~IsWord(Head(s)) THEN 0 ELSE 1 + WordRun(Tail(s))

\* the position of the first ch in s, 0 when there is none
RECURSIVE Find(_, _)
Find(s, ch) ==
  IF s = <<>> THEN 0
  ELSE IF Head(s) = ch THEN 1
  ELSE LET i == Find(Tail(s), ch) IN IF i = 0 THEN 0 ELSE i + 1

\* (?:"([^"]*)"|(\'[^\']*\')|([^\s]*)) at the start of r: the group that
\* took part and the number of characters matched; the single-quoted group
\* keeps its quotes
MatchValue(r) ==
  LET close == IF r = <<>> THEN 0 ELSE Find(Tail(r), Head(r))
  IN IF r # <<>> /\ Head(r) = "\"" /\ close > 0
     THEN [value |-> SubSeq(r, 2, close), len |-> close + 1]
     ELSE IF r # <<>> /\ Head(r) = "'" /\ close > 0
     THEN [value |-> SubSeq(r, 1, close + 1), len |-> close + 1]
     ELSE [value |-> SubSeq(r, 1, RunLen(r)), len |-> RunLen(r)]

\* re.finditer(key_value_pattern, args_str), lines 117-120: the matches of
\* (\w+)=(...) from left to right, without overlap
RECURSIVE FindPairs(_)
FindPairs(s) ==
  IF s = <<>> THEN <<>>
  ELSE LET k == WordRun(s)
       IN IF k > 0 /\ k < Len(s) /\ s[k + 1] = "="
          THEN LET r == SubSeq(s, k + 2, Len(s))
                   m == MatchValue(r)
               IN <<[key |-> SubSeq(s, 1, k), value |-> m.value]>>
                    \o FindPairs(SubSeq(r, m.len + 1, Len(r)))
          ELSE FindPairs(Tail(s))

\* lines 121-122: a value that starts and ends with the same quote loses
\* its first and last character
StripQuotes(value) ==
  IF value # <<>> /\ Head(value) \in {"\"", "'"} /\ value[Len(value)] = Head(value)
  THEN SubSeq(value, 2, Len(value) - 1)
  ELSE value

\* str.isdigit() on the modelled characters
isdigit(value) == value # <<>> /\ \A i \in DOMAIN value : value[i] \in Digits

\* int() of a digit string
DigitValue(ch) ==
  CASE ch = "0" -> 0 [] ch = "1" -> 1 [] ch = "2" -> 2 [] ch = "3" -> 3
    [] ch = "4" -> 4 [] ch = "5" -> 5 [] ch = "6" -> 6 [] ch = "7" -> 7
    [] ch = "8" -> 8 [] ch = "9" -> 9
RECURSIVE IntOf(_)
IntOf(value) ==
  IF value = <<>> THEN 0
  ELSE 10 * IntOf(SubSeq(value, 1, Len(value) - 1)) + DigitValue(value[Len(value)])

\* re.match(r'^-?\d+\.\d+$', value); $ also matches before a final line
\* break
MatchesFloat(value) ==
  LET v == IF value # <<>> /\ value[Len(value)] = "\n"
           THEN SubSeq(value, 1, Len(value) - 1) ELSE value
      u == IF v # <<>> /\ Head(v) = "-" THEN Tail(v) ELSE v
      dot == Find(u, ".")
  IN /\ dot > 1 /\ dot < Len(u)
     /\ isdigit(SubSeq(u, 1, dot - 1))
     /\ isdigit(SubSeq(u, dot + 1, Len(u)))

\* float() of a text MatchesFloat accepts: sign, whole part and the digits
\* of the fraction without its trailing zeros
RECURSIVE DropZeros(_)
DropZeros(d) == IF d # <<>> /\ d[Len(d)] = "0" THEN DropZeros(SubSeq(d, 1, Len(d) - 1))
                ELSE d
FloatOf(value) ==
  LET v == IF value[Len(value)] = "\n" THEN SubSeq(value, 1, Len(value) - 1)
           ELSE value
      neg == Head(v) = "-"
      u == IF neg THEN Tail(v) ELSE v
      dot == Find(u, ".")
      whole == IntOf(SubSeq(u, 1, dot - 1))
      frac == DropZeros(SubSeq(u, dot + 1, Len(u)))
  IN [t |-> "float", neg |-> (neg /\ (whole # 0 \/ frac # <<>>)),
      whole |-> whole, frac |-> frac]

\* str.lower() on the modelled characters
LowerChar(ch) ==
  CASE ch = "A" -> "a" [] ch = "E" -> "e" [] ch = "F" -> "f" [] ch = "L" -> "l"
    [] ch = "R" -> "r" [] ch = "S" -> "s" [] ch = "T" -> "t" [] ch = "U" -> "u"
    [] OTHER -> ch
lower(value) == [i \in DOMAIN value |-> LowerChar(value[i])]

TextTrue == <<"t", "r", "u", "e">>
TextFalse == <<"f", "a", "l", "s", "e">>

\* a coercion that knows integers only
Coerce_IntOnly(value) ==
  IF isdigit(value) THEN [t |-> "int", v |-> IntOf(value)]
  ELSE [t |-> "str", v |-> value]

\* lines 123-133: the value stored for a key (int() cannot raise on the
\* modelled digits, so the except branch is not taken)
Coerce(value) ==
  IF isdigit(value) THEN [t |-> "int", v |-> IntOf(value)]
  ELSE IF MatchesFloat(value) THEN FloatOf(value)
  ELSE IF lower(value) \in {TextTrue, TextFalse}
  THEN [t |-> "bool", v |-> (lower(value) = TextTrue)]
  ELSE [t |-> "str", v |-> value]

\* the dictionary the loop of lines 118-133 builds: a later pair replaces
\* an earlier one with the same key
ArgsDict(pairs) ==
  LET keys == {pairs[i].key : i \in DOMAIN pairs}
      lastOf(k) == CHOOSE i \in DOMAIN pairs :
                     /\ pairs[i].key = k
                     /\ \A j \in DOMAIN pairs : pairs[j].key = k => j <= i
  IN [k \in keys |-> Coerce(StripQuotes(pairs[lastOf(k)].value))]

\* _parse_shorthand_command, lines 110-139
parse_shorthand_command(message) ==
  IF ~MatchesToolArgs(message, W_shorthand) THEN Unknown
  ELSE ParsedCommand("shorthand", <<split(message)[2]>>,
                     [args |-> ArgsDict(FindPairs(AfterWords(message, 2)))])

\* _parse_help_command, lines 141-150: ^!help(?:\s+(\S+))?$
parse_help_command(message) ==
  LET w == split(message)
  IN IF Len(w) = 1 /\ w[1] = W_help THEN ParsedCommand("help", <<>>, EmptyDict)
     ELSE IF Len(w) = 2 /\ w[1] = W_help
     THEN ParsedCommand("help", <<w[2]>>, EmptyDict)
     ELSE Unknown

\* _parse_schema_command, lines 152-161: ^!schema\s+(\S+)$
parse_schema_command(message) ==
  LET w == split(message)
  IN IF Len(w) = 2 /\ w[1] = W_schema
     THEN ParsedCommand("schema", <<w[2]>>, EmptyDict)
     ELSE Unknown

\* parse_command, lines 46-69: the command type is read off the first word
\* alone; disconnect, list and status are not matched against a pattern
parse_command(text) ==
  LET message == strip(text)
      command_type == CommandType(Tail(split(message)[1]))
  IN IF ~is_command(message) THEN Unknown
     ELSE IF command_type = "ValueError" THEN Unknown
     ELSE IF command_type = "connect" THEN parse_connect_command(message)
     ELSE IF command_type = "call" THEN parse_call_command(message)
     ELSE IF command_type = "shorthand" THEN parse_shorthand_command(message)
     ELSE IF command_type = "help" THEN parse_help_command(message)
     ELSE IF command_type = "schema" THEN parse_schema_command(message)
     ELSE IF command_type \in {"disconnect", "list", "status"}
     THEN ParsedCommand(command_type, <<>>, EmptyDict)
     ELSE Unknown

\* ------------------------------------------------- the texts parsed
\* first words that are no command name
W_bogus == <<"!", "b", "o", "g", "u", "s">>
W_bang == <<"!">>
W_hello == <<"h", "e", "l", "l", "o">>
FirstWords == {W_connect, W_disconnect, W_list, W_call, W_shorthand, W_status, W_help, W_schema, W_unknown, W_bogus, W_bang, W_hello}

\* the words that follow the first word
ArgWords ==
  {<<>>,
   <<<<"n", "o", "w">>>>,
   <<<<"h", "t", "t", "p", ":", "/", "/", "a">>>>,
   <<<<"h", "t", "t", "p", ":", "/", "/", "/", "p", "a", "t", "h">>>>,
   <<<<"h", "t", "t", "p", "s", ":", "/", "/", "b">>>>,
   <<<<"h", "t", "t", "p", "s", ":", "/", "/">>>>,
   <<<<"f", "t", "p", ":", "/", "/", "c">>>>,
   <<<<"h", "t", "t", "p", ":", "/", "/", "a">>, <<"-", "-", "t", "o", "k", "e", "n">>, <<"t", "o", "k">>>>,
   <<<<"h", "t", "t", "p", ":", "/", "/", "a">>, <<"-", "-", "t", "o", "k", "e", "n", "-", "e", "n", "v", "-", "v", "a", "r">>, <<"V", "A", "R">>>>,
   <<<<"h", "t", "t", "p", ":", "/", "/", "a">>, <<"-", "-", "t", "o", "k", "e", "n">>, <<"t", "o", "k">>, <<"-", "-", "t", "o", "k", "e", "n", "-", "e", "n", "v", "-", "v", "a", "r">>, <<"V", "A", "R">>>>,
   <<<<"h", "t", "t", "p", ":", "/", "/", "a">>, <<"-", "-", "t", "o", "k", "e", "n">>>>,
   <<<<"h", "t", "t", "p", ":", "/", "/", "a">>, <<"-", "-", "t", "o", "k", "e", "n", "-", "e", "n", "v", "-", "v", "a", "r">>, <<"V", "A", "R">>, <<"-", "-", "t", "o", "k", "e", "n">>, <<"t", "o", "k">>>>,
   <<<<"h", "t", "t", "p", ":", "/", "/", "a">>, <<"e", "x", "t", "r", "a">>>>,
   <<<<"s", "e", "a", "r", "c", "h">>>>,
   <<<<"s", "e", "a", "r", "c", "h">>, <<"{", "}">>>>,
   <<<<"s", "e", "a", "r", "c", "h">>, <<"{", "\"", "q", "\"", ":">>, <<"\"", "x", "\"", "}">>>>,
   <<<<"s", "e", "a", "r", "c", "h">>, <<"{", "\"", "q", "\"", ":">>, <<"\"", "x", "\"", ",">>, <<"\"", "c", "o", "u", "n", "t", "\"", ":">>, <<"\"", "5", "\"", "}">>>>,
   <<<<"s", "e", "a", "r", "c", "h">>, <<"[", "1", "]">>>>,
   <<<<"s", "e", "a", "r", "c", "h">>, <<"5">>>>,
   <<<<"s", "e", "a", "r", "c", "h">>, <<"\"", "s", "\"">>>>,
   <<<<"s", "e", "a", "r", "c", "h">>, <<"t", "r", "u", "e">>>>,
   <<<<"s", "e", "a", "r", "c", "h">>, <<"n", "u", "l", "l">>>>,
   <<<<"s", "e", "a", "r", "c", "h">>, <<"{", "b", "a", "d">>>>,
   <<<<"s", "e", "a", "r", "c", "h">>, <<"k", "e", "y", "1", "=", "5">>, <<"k", "e", "y", "2", "=", "3", ".", "1", "4">>, <<"k", "e", "y", "3", "=", "t", "r", "u", "e">>, <<"k", "e", "y", "4", "=", "\"", "h", "e", "l", "l", "o">>, <<"w", "o", "r", "l", "d", "\"">>>>,
   <<<<"s", "e", "a", "r", "c", "h">>, <<"k", "=", "0", "0", "7">>>>,
   <<<<"s", "e", "a", "r", "c", "h">>, <<"k", "=", "-", "5">>>>,
   <<<<"s", "e", "a", "r", "c", "h">>, <<"k", "=", "-", "2", ".", "5", "0">>>>,
   <<<<"s", "e", "a", "r", "c", "h">>, <<"k", "=", "T", "R", "U", "E">>>>,
   <<<<"s", "e", "a", "r", "c", "h">>, <<"k", "=", "\"", "5", "\"">>>>,
   <<<<"s", "e", "a", "r", "c", "h">>, <<"k", "=", "'", "t", "r", "u", "e", "'">>>>,
   <<<<"s", "e", "a", "r", "c", "h">>, <<"k", "=">>>>,
   <<<<"s", "e", "a", "r", "c", "h">>, <<"k", "=", "\"", "a", "b", "c">>>>,
   <<<<"s", "e", "a", "r", "c", "h">>, <<"k", "=", "1", ".">>>>,
   <<<<"s", "e", "a", "r", "c", "h">>, <<"a", "=", "1">>, <<"a", "=", "x">>>>,
   <<<<"s", "e", "a", "r", "c", "h">>, <<"x">>, <<"y", "=", "F", "a", "l", "s", "e">>>>,
   <<<<"s", "e", "a", "r", "c", "h">>, <<"=", "5">>>>}

\* the words joined by single blanks
RECURSIVE Join(_)
Join(ws) ==
  IF ws = <<>> THEN <<>>
  ELSE IF Len(ws) = 1 THEN ws[1]
  ELSE ws[1] \o <<" ">> \o Join(Tail(ws))

\* blanks around a message
Pads == {<<>>, <<" ">>, <<"\n">>}

\* the texts a sender may send
Messages ==
  {lead \o Join(<<first>> \o rest) \o trail :
     lead \in Pads, trail \in Pads, first \in FirstWords, rest \in ArgWords}

\* --------------------------------------------------- tool schemas (data)
Absent == [tag |-> "absent", val |-> EmptyDict]
NonDict == [tag |-> "nondict", val |-> EmptyDict]
NonList == [tag |-> "nonlist", val |-> EmptyDict]
Dict(f) == [tag |-> "dict", val |-> f]
List(s) == [tag |-> "list", val |-> s]

NoDefault == [isDict |-> TRUE, hasDefault |-> FALSE, default |-> None]
Default(v) == [isDict |-> TRUE, hasDefault |-> TRUE, default |-> v]
NotAnInfo == [isDict |-> FALSE, hasDefault |-> FALSE, default |-> None]

SchemaSearch ==
  [isDict |-> TRUE,
   props |-> Dict([q |-> NoDefault, count |-> Default("10")]),
   required |-> List(<<"q">>)]
SchemaLocal ==
  [isDict |-> TRUE,
   props |-> Dict([q |-> Default("dq"), count |-> Default("10"), lang |-> NotAnInfo]),
   required |-> Absent]
SchemaGeo ==
  [isDict |-> TRUE,
   props |-> Dict([q |-> Default("dq"), count |-> NoDefault]),
   required |-> List(<<"q", "count">>)]
SchemaNotDict == [isDict |-> FALSE, props |-> Absent, required |-> Absent]
SchemaEmpty == [isDict |-> TRUE, props |-> Absent, required |-> Absent]
SchemaLoose == [isDict |-> TRUE, props |-> NonDict, required |-> NonList]

\* A tool descriptor of the gateway: hasName / hasGet say whether the object
\* has a .name attribute and a .get method.
Tool(n, s) == [name |-> n, hasName |-> TRUE, hasGet |-> TRUE, schema |-> s]
ToolNoGet(n) == [name |-> n, hasName |-> TRUE, hasGet |-> FALSE, schema |-> SchemaNotDict]
ToolNoName(n) == [name |-> n, hasName |-> FALSE, hasGet |-> TRUE, schema |-> SchemaSearch]

CatalogA == <<Tool("search", SchemaSearch), Tool("local", SchemaLocal), Tool("geo", SchemaGeo)>>
CatalogB == <<ToolNoGet("raw"), Tool("bad", SchemaNotDict), Tool("loose", SchemaLoose),
              ToolNoName("anon")>>
Catalogs == {CatalogA, CatalogB}

\* ------------------------------------------------------------------- state
VARIABLES
  current_session,  \* BraveSearchSessionManager.current_session (a session id)
  sessions,         \* the BraveSearchServerSession objects, by id
  client,           \* the one BraveSearchClient wrapper (its tools field is
                    \* written and never read, and is left out)
  live,             \* fastmcp connections entered and not exited
  pc, cmd, loc, res,\* per task: position, command, locals, returned value
  pre,              \* per task: the manager's state when its call began
  gw,               \* per task: gateway operations its call has invoked
  gwcall,           \* per task: what its call handed to call_tool
  last,             \* the last call that returned, when a disconnect
  gwFailed,         \* some gateway operation has failed so far
  delivered         \* messages delivered concurrently so far

vars == <<current_session, sessions, client, live, pc, cmd, loc, res, pre,
          gw, gwcall, last, gwFailed, delivered>>

NoParse == ParsedCommand("none", <<>>, EmptyDict)
NoCmd == [op |-> "none", url |-> None, token |-> None, token_env_var |-> None,
          tool |-> None, args |-> EmptyDict, text |-> <<>>, parsed |-> NoParse]
NoLoc == [sess |-> NoSession, conn |-> NoConn, caller |-> "none",
          durl |-> None, dsess |-> NoSession, token |-> None]
NoRes == [status |-> "none", success |-> FALSE, kind |-> "none", url |-> None,
          tool_count |-> 0, missing |-> <<>>, value |-> None]
NoPre == [cs |-> NoSession, connected |-> FALSE, url |-> None, conn |-> NoConn]
NoLast == [op |-> "other", success |-> FALSE]
NoCall == [invoked |-> FALSE, supplied |-> EmptyDict, passed |-> EmptyDict,
           wire |-> EmptyDict, fetched |-> FALSE, schema |-> SchemaEmpty]

\* BraveSearchSessionManager.is_connected
is_connected ==
  current_session # NoSession /\ sessions[current_session].connected

\* BraveSearchServerSession.get_status, lines 65-77
SessionStatus(s) ==
  [url |-> s.url, connected |-> s.connected,
   tool_count |-> Len(s.available_tools), has_token |-> (s.token # None)]

\* a status that carries the token of the session along
ManagerStatus_Leak(cs, sess) ==
  IF cs = NoSession
  THEN [connected |-> FALSE, message |-> "Not connected to Brave Search MCP server"]
  ELSE [connected |-> SessionStatus(sess[cs]).connected,
        url |-> SessionStatus(sess[cs]).url,
        tool_count |-> SessionStatus(sess[cs]).tool_count,
        has_token |-> SessionStatus(sess[cs]).has_token,
        token |-> sess[cs].token]

\* BraveSearchSessionManager.get_status, lines 189-208, of a manager whose
\* current session is cs among the session objects sess
ManagerStatus(cs, sess) ==
  IF cs = NoSession
  THEN [connected |-> FALSE, message |-> "Not connected to Brave Search MCP server"]
  ELSE [connected |-> SessionStatus(sess[cs]).connected,
        url |-> SessionStatus(sess[cs]).url,
        tool_count |-> SessionStatus(sess[cs]).tool_count,
        has_token |-> SessionStatus(sess[cs]).has_token]

\* BraveSearchSessionManager.get_status
get_status == ManagerStatus(current_session, sessions)

\* format_status (result_formatter.py, lines 75-85): the lines of the text
format_status(status) ==
  IF ~status.connected
  THEN <<<<"Status", IF "message" \in DOMAIN status THEN status.message
                     ELSE "Not connected to Brave Search MCP server">>>>
  ELSE <<<<"Status", "Connected to Brave Search MCP server">>>>
       \o (IF "tool_count" \in DOMAIN status
           THEN <<<<"Available tools", status.tool_count>>>> ELSE <<>>)
       \o (IF "has_token" \in DOMAIN status /\ status.has_token
           THEN <<<<"Authentication", "Using token">>>>
           ELSE <<<<"Authentication", "None">>>>)

\* a list_tools that has no catalog
list_tools_Empty == <<>>

\* BraveSearchSessionManager.list_tools, lines 219-229
list_tools ==
  IF ~is_connected THEN <<>> ELSE sessions[current_session].available_tools

Snapshot ==
  [cs |-> current_session,
   connected |-> is_connected,
   url |-> IF current_session = NoSession THEN None
           ELSE sessions[current_session].url,
   conn |-> client.client]

Init ==
  /\ current_session = NoSession
  /\ sessions = <<>>
  /\ client = [client |-> NoConn, connected |-> FALSE, server_url |-> None,
               token |-> None]
  /\ live = {}
  /\ pc = [t \in Tasks |-> "idle"]
  /\ cmd = [t \in Tasks |-> NoCmd]
  /\ loc = [t \in Tasks |-> NoLoc]
  /\ res = [t \in Tasks |-> NoRes]
  /\ pre = [t \in Tasks |-> NoPre]
  /\ gw = [t \in Tasks |-> <<>>]
  /\ gwcall = [t \in Tasks |-> NoCall]
  /\ last = NoLast
  /\ gwFailed = FALSE
  /\ delivered = 0

AllIdle == \A t \in Tasks : pc[t] = "idle"

\* a fresh object gets an identity no object in use has
NewId(used) == CHOOSE i \in 1..(Cardinality(used) + 1) : i \notin used

\* the session objects some reference is held to by the manager or by the
\* tasks ts
SessionRefs(ts) ==
  ({current_session} \cup UNION {{loc[u].sess, loc[u].dsess, pre[u].cs} : u \in ts})
    \ {NoSession}

\* the fastmcp Client objects the tasks ts hold
HeldConns(ts) == {loc[u].conn : u \in ts} \ {NoConn}

\* a dictionary returned to the caller
Result(ok, kind, url, n) ==
  [status |-> "returned", success |-> ok, kind |-> kind, url |-> url,
   tool_count |-> n, missing |-> <<>>, value |-> None]

\* the call of task t returns r: its locals are gone, the handler formats r
\* and awaits ctx.send
Return(t, r) ==
  /\ pc' = [pc EXCEPT ![t] = "done"]
  /\ res' = [res EXCEPT ![t] = r]
  /\ loc' = [loc EXCEPT ![t] = NoLoc]

\* a message is delivered: one at a time (every handler has finished), or
\* concurrently, as the transport delivers it
Deliver(conc) ==
  IF conc
  THEN delivered < MaxDelivered /\ delivered' = delivered + 1
  ELSE AllIdle /\ delivered' = delivered

\* the task awaits network I/O at label l
Await(t, l, locals) ==
  /\ pc' = [pc EXCEPT ![t] = l]
  /\ loc' = [loc EXCEPT ![t] = locals]
  /\ res' = res

\* ------------------------------------------------- the manager's connect
\* the except branch of BraveSearchClient.connect, lines 69-72
ClientReset(cl) == [cl EXCEPT !.client = NoConn, !.connected = FALSE,
                              !.server_url = None, !.token = None]

\* the fastmcp Client objects in use
ConnsInUse == (live \cup {client.client} \cup HeldConns(Tasks)) \ {NoConn}

\* the manager, the client and the task's record as a call has left them so
\* far within one step
Now(t) == [cs |-> current_session, sess |-> sessions, cl |-> client,
           gw |-> gw[t], gf |-> gwFailed, used |-> ConnsInUse]

\* a manager that makes each call of the gateway wrapper a second time
Invoke_Twice(log, op) == log \o <<op, op>>

\* one call of a method of the gateway wrapper (session.connect at connect
\* line 141, session.disconnect at disconnect line 170, call_tool at
\* call_tool line 249), noted in the log of the task
Invoke(log, op) == Append(log, op)

\* a connect that keeps a session it still holds
AssignCurrent_KeepOld(old, new) == IF old # NoSession THEN old ELSE new

\* connect, line 138: the new session becomes the current one
AssignCurrent(old, new) == new

\* a session's disconnect that marks the session disconnected whatever the
\* client reports
ConnectedAfterDisconnect_AlwaysFalse(success) == FALSE

\* BraveSearchServerSession.disconnect, line 59: self.connected = not success
ConnectedAfterDisconnect(success) == ~success

\* a disconnect that clears the reference whatever the session reports
AfterDisconnect_AlwaysClear(cs, success) == NoSession

\* a disconnect that never clears the reference
AfterDisconnect_NeverClear(cs, success) == cs

\* disconnect, lines 172-173: the reference is cleared on success only
AfterDisconnect(cs, success) == IF success THEN NoSession ELSE cs

\* a connect that prefers the inline token to the environment variable
ActualToken_InlineFirst(token, token_env_var) ==
  IF Truthy(token) THEN token
  ELSE IF Truthy(token_env_var) THEN EnvGet(token_env_var) ELSE token

\* connect, lines 128-130: actual_token is the value of the environment
\* variable when token_env_var is given, and the inline token otherwise
ActualToken(token, token_env_var) ==
  IF Truthy(token_env_var) THEN EnvGet(token_env_var) ELSE token

\* connect, lines 127-141 and 149-154, with BraveSearchServerSession.connect
\* (lines 39-48) and BraveSearchClient.connect (lines 28-53) up to the await
\* of __aenter__; st is the state the implicit disconnect has left
ConnectTail(t, c, st) ==
  LET actual == ActualToken(c.token, c.token_env_var)
      s == NewId(DOMAIN st.sess)
      created == [i \in DOMAIN st.sess \cup {s} |->
                    IF i = s THEN [url |-> c.url, token |-> actual,
                                   connected |-> FALSE, available_tools |-> <<>>]
                    ELSE st.sess[i]]
      conn == NewId(st.used)
      parsed == UrlParse(c.url)
  IN IF Truthy(c.token_env_var) /\ ~Truthy(actual)
     THEN /\ current_session' = st.cs
          /\ sessions' = st.sess
          /\ client' = st.cl
          /\ gw' = [gw EXCEPT ![t] = st.gw]
          /\ gwFailed' = st.gf
          /\ Return(t, Result(FALSE, "env_missing", None, 0))
     ELSE IF parsed.exc \/ parsed.scheme = "" \/ parsed.netloc = ""
     THEN \* the client returns False (or urlparse raises and the session's
          \* except sets connected = False): no fastmcp Client is made
          /\ current_session' = NoSession
          /\ sessions' = created
          /\ client' = st.cl
          /\ gw' = [gw EXCEPT ![t] = Append(Invoke(st.gw, "connect"), "connect=False")]
          /\ gwFailed' = TRUE
          /\ Return(t, Result(FALSE, "connect_failed", c.url, 0))
     ELSE /\ current_session' = AssignCurrent(st.cs, s)
          /\ sessions' = created
          /\ client' = [st.cl EXCEPT !.client = conn, !.server_url = c.url]
          /\ gw' = [gw EXCEPT ![t] = Invoke(st.gw, "connect")]
          /\ gwFailed' = st.gf
          /\ Await(t, "cc_aenter", [NoLoc EXCEPT !.sess = s, !.conn = conn,
                                                 !.token = actual])

\* a connect command is delivered: _handle_connect_command calls
\* session_manager.connect(url, token, token_env_var); connect lines 117-125
\* and, through disconnect (163-170), BraveSearchServerSession.disconnect
\* (57-58) and BraveSearchClient.disconnect (76-81), up to the first await
StartConnect(t, url, token, envvar, conc) ==
  /\ pc[t] = "idle"
  /\ Deliver(conc)
  /\ Cardinality(live) < MaxLive
  /\ LET c == [NoCmd EXCEPT !.op = "connect", !.url = url, !.token = token,
                            !.token_env_var = envvar]
         cs == current_session
     IN /\ cmd' = [cmd EXCEPT ![t] = c]
        /\ pre' = [pre EXCEPT ![t] = Snapshot]
        /\ IF ~Truthy(url)
           THEN /\ Return(t, Result(FALSE, "no_url", None, 0))
                /\ UNCHANGED <<current_session, sessions, client, gw, gwFailed>>
           ELSE IF cs # NoSession /\ sessions[cs].connected
           THEN IF ~client.connected \/ client.client = NoConn
                THEN \* the client reports True at once
                     ConnectTail(t, c,
                       [Now(t) EXCEPT !.cs = AfterDisconnect(cs, TRUE),
                                      !.sess = [sessions EXCEPT ![cs].connected =
                                                  ConnectedAfterDisconnect(TRUE)],
                                      !.gw = Append(Invoke(<<>>, "disconnect"),
                                                    "disconnect=True")])
                ELSE /\ Await(t, "cd_aexit",
                              [NoLoc EXCEPT !.caller = "connect", !.dsess = cs,
                                            !.durl = sessions[cs].url,
                                            !.conn = client.client])
                     /\ gw' = [gw EXCEPT ![t] = Invoke(<<>>, "disconnect")]
                     /\ UNCHANGED <<current_session, sessions, client, gwFailed>>
           ELSE ConnectTail(t, c, Now(t))
  /\ UNCHANGED <<live, gwcall, last>>

\* a connect that keeps the session whose connect returned False
ConnectFailed_KeepSession(t) ==
  /\ current_session' = current_session
  /\ Return(t, Result(FALSE, "connect_failed", cmd[t].url, 0))
  /\ gwFailed' = TRUE

\* connect, lines 149-154: the session's connect returned False
ConnectFailed(t) ==
  /\ current_session' = NoSession
  /\ Return(t, Result(FALSE, "connect_failed", cmd[t].url, 0))
  /\ gwFailed' = TRUE

\* a connect that reports no tools
ConnectSucceeded_NoCount(t, sess) ==
  IF current_session = NoSession
  THEN Return(t, [NoRes EXCEPT !.status = "raised", !.kind = "AttributeError"])
  ELSE Return(t, Result(TRUE, "connected", sess[current_session].url, 0))

\* connect, lines 143-148: the session's connect returned True; the message
\* and the count are read from self.current_session, which raises
\* AttributeError when it is None by now
ConnectSucceeded(t, sess) ==
  IF current_session = NoSession
  THEN Return(t, [NoRes EXCEPT !.status = "raised", !.kind = "AttributeError"])
  ELSE Return(t, Result(TRUE, "connected", sess[current_session].url,
                        Len(sess[current_session].available_tools)))

\* BraveSearchClient.connect, lines 53-54 and 61-73: __aenter__ completes;
\* on success the tools are listed on whatever self.client is now
CC_Aenter(t, ok) ==
  /\ pc[t] = "cc_aenter"
  /\ live' = IF ok THEN live \cup {loc[t].conn} ELSE live
  /\ IF ok /\ client.client # NoConn
     THEN /\ Await(t, "cc_list", [loc[t] EXCEPT !.conn = client.client])
          /\ UNCHANGED <<current_session, client, gw, gwFailed>>
     ELSE /\ client' = ClientReset(client)
          /\ ConnectFailed(t)
          /\ gw' = [gw EXCEPT ![t] = Append(@, "connect=False")]
  /\ UNCHANGED <<sessions, cmd, pre, gwcall, last, delivered>>

\* BraveSearchClient.connect, lines 54-60 and 61-73: list_tools completes;
\* then BraveSearchServerSession.connect lines 41-43 up to the await inside
\* BraveSearchClient.list_tools (lines 93-98)
CC_List(t, ok, tools) ==
  /\ pc[t] = "cc_list"
  /\ IF ok
     THEN LET cl == [client EXCEPT !.connected = TRUE, !.token = loc[t].token]
              sess == [sessions EXCEPT ![loc[t].sess].connected = TRUE]
          IN /\ client' = cl
             /\ sessions' = sess
             /\ gw' = [gw EXCEPT ![t] = @ \o <<"connect=True", "list_tools">>]
             /\ gwFailed' = gwFailed
             /\ IF cl.client = NoConn
                THEN \* list_tools returns [] without a network call
                     ConnectSucceeded(t, sess)
                ELSE Await(t, "sl_list", [loc[t] EXCEPT !.conn = cl.client])
             /\ UNCHANGED current_session
     ELSE /\ client' = ClientReset(client)
          /\ ConnectFailed(t)
          /\ gw' = [gw EXCEPT ![t] = Append(@, "connect=False")]
          /\ UNCHANGED sessions
  /\ UNCHANGED <<live, cmd, pre, gwcall, last, delivered>>

\* BraveSearchClient.list_tools, lines 98-105, called from the session's
\* connect (line 43), then connect lines 143-148
SL_List(t, ok, tools) ==
  /\ pc[t] = "sl_list"
  /\ LET sess == [sessions EXCEPT ![loc[t].sess].available_tools =
                                     IF ok THEN tools ELSE <<>>]
     IN /\ sessions' = sess
        /\ gwFailed' = (gwFailed \/ ~ok)
        /\ ConnectSucceeded(t, sess)
  /\ UNCHANGED <<current_session, client, live, cmd, pre, gw, gwcall, last, delivered>>

\* ---------------------------------------------- the manager's disconnect
\* a disconnect command is delivered: disconnect lines 163-177, with
\* BraveSearchServerSession.disconnect (57-60) and
\* BraveSearchClient.disconnect (76-81), up to the await of __aexit__
StartDisconnect(t, conc) ==
  /\ pc[t] = "idle"
  /\ Deliver(conc)
  /\ cmd' = [cmd EXCEPT ![t] = [NoCmd EXCEPT !.op = "disconnect"]]
  /\ pre' = [pre EXCEPT ![t] = Snapshot]
  /\ LET cs == current_session
     IN IF cs = NoSession
        THEN /\ Return(t, Result(FALSE, "not_connected", None, 0))
             /\ UNCHANGED <<current_session, sessions, gw>>
        ELSE IF ~client.connected \/ client.client = NoConn
        THEN \* the client reports True at once
             /\ gw' = [gw EXCEPT ![t] = Append(Invoke(<<>>, "disconnect"),
                                               "disconnect=True")]
             /\ sessions' = [sessions EXCEPT ![cs].connected =
                                ConnectedAfterDisconnect(TRUE)]
             /\ current_session' = AfterDisconnect(cs, TRUE)
             /\ Return(t, Result(TRUE, "disconnected", sessions[cs].url, 0))
        ELSE /\ gw' = [gw EXCEPT ![t] = Invoke(<<>>, "disconnect")]
             /\ Await(t, "cd_aexit",
                      [NoLoc EXCEPT !.caller = "disconnect", !.dsess = cs,
                                    !.durl = sessions[cs].url,
                                    !.conn = client.client])
             /\ UNCHANGED <<current_session, sessions>>
  /\ UNCHANGED <<client, live, gwcall, last, gwFailed>>

\* disconnect, lines 172-182, once the session's disconnect has returned ok
DisconnectDone(t, ok, st) ==
  /\ current_session' = st.cs
  /\ sessions' = st.sess
  /\ client' = st.cl
  /\ gwFailed' = st.gf
  /\ gw' = [gw EXCEPT ![t] = st.gw]
  /\ Return(t, Result(ok, IF ok THEN "disconnected" ELSE "disconnect_failed",
                      loc[t].durl, 0))

\* a client that forgets its connection although __aexit__ raised
ClientAfterDisconnect_Reset(cl, ok) == ClientReset(cl)

\* BraveSearchClient.disconnect, lines 82-90: the fields are reset when
\* __aexit__ returned, and left as they are when it raised
ClientAfterDisconnect(cl, ok) == IF ok THEN ClientReset(cl) ELSE cl

\* BraveSearchClient.disconnect, lines 81-90: __aexit__ completes (when it
\* raises, the connection may or may not have been closed); then
\* BraveSearchServerSession.disconnect lines 59-60 and disconnect lines
\* 172-182, and for the implicit disconnect the rest of connect
CD_Aexit(t, ok, closed) ==
  /\ pc[t] = "cd_aexit"
  /\ ok => closed
  /\ LET live1 == IF closed THEN live \ {loc[t].conn} ELSE live
         cl1 == ClientAfterDisconnect(client, ok)
         st == [cs |-> AfterDisconnect(current_session, ok),
                sess |-> [sessions EXCEPT ![loc[t].dsess].connected =
                            ConnectedAfterDisconnect(ok)],
                cl |-> cl1,
                gw |-> Append(gw[t], IF ok THEN "disconnect=True"
                                     ELSE "disconnect=False"),
                gf |-> (gwFailed \/ ~ok),
                used |-> (live1 \cup {cl1.client} \cup HeldConns(Tasks \ {t}))
                           \ {NoConn}]
     IN /\ live' = live1
        /\ IF loc[t].caller = "connect"
           THEN ConnectTail(t, cmd[t], st)
           ELSE DisconnectDone(t, ok, st)
  /\ UNCHANGED <<cmd, pre, gwcall, last, delivered>>

\* a session object no reference is left to is freed
Collect(sess, refs) == [i \in DOMAIN sess \cap refs |-> sess[i]]

\* the reply was sent: the task ends and drops its references
Ack(t) ==
  /\ pc[t] = "done"
  /\ last' = IF cmd[t].op = "disconnect"
             THEN [op |-> "disconnect", success |-> res[t].success]
             ELSE NoLast
  /\ pc' = [pc EXCEPT ![t] = "idle"]
  /\ cmd' = [cmd EXCEPT ![t] = NoCmd]
  /\ res' = [res EXCEPT ![t] = NoRes]
  /\ pre' = [pre EXCEPT ![t] = NoPre]
  /\ gw' = [gw EXCEPT ![t] = <<>>]
  /\ gwcall' = [gwcall EXCEPT ![t] = NoCall]
  /\ sessions' = Collect(sessions, SessionRefs(Tasks \ {t}))
  /\ UNCHANGED <<current_session, client, live, loc, gwFailed, delivered>>

\* ------------------------------------------------------ schema_utils.py
Range(sq) == {sq[i] : i \in DOMAIN sq}

\* _clean_schema
clean_schema(raw) ==
  IF ~raw.isDict
  THEN SchemaEmpty
  ELSE [isDict |-> TRUE,
        props |-> IF raw.props.tag = "dict" THEN raw.props ELSE Dict(EmptyDict),
        required |-> IF raw.required.tag = "nonlist" THEN List(<<>>)
                     ELSE raw.required]

validate_schema_structure(schema) ==
  /\ schema.isDict
  /\ schema.props.tag = "dict"
  /\ schema.required.tag # "nonlist"

extract_required_params(schema) ==
  IF ~validate_schema_structure(schema) THEN <<>>
  ELSE IF schema.required.tag = "list" THEN schema.required.val ELSE <<>>

extract_optional_params_with_defaults(schema) ==
  IF ~validate_schema_structure(schema) THEN EmptyDict
  ELSE LET properties == schema.props.val
           required == IF schema.required.tag = "list" THEN schema.required.val
                       ELSE <<>>
           names == {p \in DOMAIN properties :
                       /\ p \notin Range(required)
                       /\ properties[p].isDict
                       /\ properties[p].hasDefault}
       IN [p \in names |-> properties[p].default]

\* BraveSearchClient.get_schema, lines 131-137, over the tools list_tools
\* gave; get_schema_from_tool calls tool.get, which a descriptor may lack
GetSchema(tools, tool_name) ==
  LET hits == {i \in 1..Len(tools) : tools[i].hasName /\ tools[i].name = tool_name}
  IN IF hits = {}
     THEN [exc |-> "ValueError", schema |-> SchemaEmpty]
     ELSE LET first == tools[CHOOSE i \in hits : \A j \in hits : i <= j]
          IN IF ~first.hasGet
             THEN [exc |-> "AttributeError", schema |-> SchemaEmpty]
             ELSE [exc |-> "none", schema |-> clean_schema(first.schema)]

\* ------------------------------------------------------- chat_handler.py
\* a fill in which a default replaces the value the caller supplied
FillDefaults_Override(args, optional_params) ==
  [p \in DOMAIN args \cup DOMAIN optional_params |->
     IF p \in DOMAIN optional_params THEN optional_params[p] ELSE args[p]]

\* _validate_and_fill_parameters, lines 80-85: a copy of args, with each
\* optional parameter that args lacks set to its default
FillDefaults(args, optional_params) ==
  [p \in DOMAIN args \cup DOMAIN optional_params |->
     IF p \in DOMAIN args THEN args[p] ELSE optional_params[p]]

\* a reconciliation that sets a count although the schema is not valid
InvalidSchemaOutcome_AddsKey(args) ==
  [exc |-> "none",
   args |-> [k \in DOMAIN args \cup {"count"} |->
               IF k \in DOMAIN args THEN args[k] ELSE "10"],
   alias |-> FALSE, missing |-> <<>>]

\* _validate_and_fill_parameters, lines 71-73: the schema is not valid, a
\* warning is logged and args itself is returned
InvalidSchemaOutcome(args) ==
  [exc |-> "none", args |-> args, alias |-> TRUE, missing |-> <<>>]

\* _validate_and_fill_parameters, lines 70-85: the body of the try
ValidateTry(got, args) ==
  IF got.exc # "none"
  THEN [exc |-> got.exc, args |-> args, alias |-> TRUE, missing |-> <<>>]
  ELSE IF ~validate_schema_structure(got.schema)
  THEN InvalidSchemaOutcome(args)
  ELSE LET required_params == extract_required_params(got.schema)
           optional_params == extract_optional_params_with_defaults(got.schema)
           missing_params == SelectSeq(required_params,
                                       LAMBDA p : p \notin DOMAIN args)
       IN IF missing_params # <<>>
          THEN [exc |-> "ValueError", args |-> args, alias |-> TRUE,
                missing |-> missing_params]
          ELSE [exc |-> "none", args |-> FillDefaults(args, optional_params),
                alias |-> FALSE, missing |-> <<>>]

\* _validate_and_fill_parameters, lines 68-88: any exception of the try,
\* the ValueError of line 79 included, is logged and args is returned
validate_and_fill_parameters(got, args) ==
  LET tried == ValidateTry(got, args)
  IN IF tried.exc # "none"
     THEN [exc |-> "none", args |-> args, alias |-> TRUE, missing |-> <<>>]
     ELSE tried

\* BraveSearchClient.call_tool, lines 113-115
AddHeaders(args, token) ==
  LET old == IF "headers" \in DOMAIN args THEN args["headers"] ELSE EmptyDict
      new == [h \in DOMAIN old \cup {"Authorization"} |->
                IF h = "Authorization" THEN <<"Bearer", token>> ELSE old[h]]
  IN [k \in DOMAIN args \cup {"headers"} |->
        IF k = "headers" THEN new ELSE args[k]]

\* a reply of the chat handler about a tool call
Reply(ok, kind, missing) ==
  [status |-> "returned", success |-> ok, kind |-> kind, url |-> None,
   tool_count |-> 0, missing |-> missing, value |-> None]

\* a call_tool that goes on to the gateway whatever the manager's state
CallToolRefuses_Never == FALSE

\* session_manager.call_tool, line 242: the call is refused
CallToolRefuses == ~is_connected

\* a handler that never gets past the validation of the arguments
CallTail_NeverReturns(t, c, got, v, st) ==
  /\ pc' = pc /\ loc' = loc /\ res' = res
  /\ UNCHANGED <<gwcall, gw, gwFailed, cmd>>

\* _handle_call_command, lines 98-107 (_handle_shorthand_command, 117-126),
\* once _validate_and_fill_parameters has given v: session_manager.call_tool
\* (lines 242-249) and BraveSearchClient.call_tool (lines 108-117) up to
\* the await of the fastmcp call_tool
CallTail(t, c, got, v, st) ==
  LET note == [gwcall[t] EXCEPT !.supplied = c.args, !.fetched = (got.exc = "none"),
                                !.schema = got.schema]
  IN IF v.exc = "ValueError"
     THEN \* lines 101-104 (the schema is fetched again for the example)
          /\ Return(t, Reply(FALSE, "parameter_validation_error", v.missing))
          /\ gwcall' = [gwcall EXCEPT ![t] = note]
          /\ gw' = [gw EXCEPT ![t] = st.gw]
          /\ gwFailed' = st.gf
          /\ cmd' = [cmd EXCEPT ![t] = c]
     ELSE IF v.exc # "none"
     THEN \* lines 105-107
          /\ Return(t, Reply(FALSE, "error", <<>>))
          /\ gwcall' = [gwcall EXCEPT ![t] = note]
          /\ gw' = [gw EXCEPT ![t] = st.gw]
          /\ gwFailed' = st.gf
          /\ cmd' = [cmd EXCEPT ![t] = c]
     ELSE IF CallToolRefuses
     THEN \* session_manager.call_tool, lines 242-246
          /\ Return(t, Reply(FALSE, "call_not_connected", <<>>))
          /\ gwcall' = [gwcall EXCEPT ![t] = [note EXCEPT !.passed = v.args]]
          /\ gw' = [gw EXCEPT ![t] = st.gw]
          /\ gwFailed' = st.gf
          /\ cmd' = [cmd EXCEPT ![t] = c]
     ELSE IF ~client.connected \/ client.client = NoConn
     THEN \* the client raises ConnectionError, caught at lines 254-261
          /\ Return(t, Reply(FALSE, "call_error", <<>>))
          /\ gwcall' = [gwcall EXCEPT ![t] = [note EXCEPT !.invoked = TRUE,
                                                          !.passed = v.args]]
          /\ gw' = [gw EXCEPT ![t] = Append(Invoke(st.gw, "call_tool"), "call_tool=False")]
          /\ gwFailed' = TRUE
          /\ cmd' = [cmd EXCEPT ![t] = c]
     ELSE LET wire == IF Truthy(client.token) THEN AddHeaders(v.args, client.token)
                      ELSE v.args
          IN /\ Await(t, "ct_call", [NoLoc EXCEPT !.conn = client.client])
             /\ gwcall' = [gwcall EXCEPT ![t] = [note EXCEPT !.invoked = TRUE,
                                                  !.passed = v.args, !.wire = wire]]
             /\ gw' = [gw EXCEPT ![t] = Invoke(st.gw, "call_tool")]
             /\ gwFailed' = st.gf
             \* args is the dictionary of the parsed command when v.alias
             /\ cmd' = IF v.alias THEN [cmd EXCEPT ![t] = [c EXCEPT !.args = wire]]
                       ELSE [cmd EXCEPT ![t] = c]

NoSchema == [exc |-> "ConnectionError", schema |-> SchemaEmpty]

\* a call or shorthand command is delivered: _handle_call_command lines
\* 91-98, _validate_and_fill_parameters line 70 and BraveSearchClient
\* get_schema (126-130) and list_tools (93-98), up to the first await
StartCall(t, op, tool, args, conc) ==
  /\ pc[t] = "idle"
  /\ Deliver(conc)
  /\ pre' = [pre EXCEPT ![t] = Snapshot]
  /\ LET c == [NoCmd EXCEPT !.op = op, !.tool = tool, !.args = args]
     IN IF ~is_connected
        THEN /\ Return(t, Reply(FALSE, "not_connected_error", <<>>))
             /\ cmd' = [cmd EXCEPT ![t] = c]
             /\ gwcall' = [gwcall EXCEPT ![t].supplied = args]
             /\ UNCHANGED <<gw, gwFailed>>
        ELSE IF ~client.connected \/ client.client = NoConn
        THEN \* get_schema raises ConnectionError
             CallTail(t, c, NoSchema, validate_and_fill_parameters(NoSchema, args),
                      [Now(t) EXCEPT !.gw = <<"get_schema">>])
        ELSE /\ Await(t, "gs_list", [NoLoc EXCEPT !.conn = client.client])
             /\ cmd' = [cmd EXCEPT ![t] = c]
             /\ gw' = [gw EXCEPT ![t] = <<"get_schema">>]
             /\ gwcall' = [gwcall EXCEPT ![t].supplied = args]
             /\ UNCHANGED gwFailed
  /\ UNCHANGED <<current_session, sessions, client, live, last>>

\* BraveSearchClient.list_tools lines 98-105 and get_schema lines 131-137:
\* the fastmcp list_tools completes; then _validate_and_fill_parameters
\* lines 71-88 and the call, up to its await
GS_List(t, ok, tools) ==
  /\ pc[t] = "gs_list"
  /\ LET got == GetSchema(IF ok THEN tools ELSE <<>>, cmd[t].tool)
     IN CallTail(t, cmd[t], got, validate_and_fill_parameters(got, cmd[t].args),
                 [Now(t) EXCEPT !.gf = (gwFailed \/ ~ok)])
  /\ UNCHANGED <<current_session, sessions, client, live, pre, last, delivered>>

\* a call_tool that drops the session when the gateway call raises
AfterCall_DropOnError(cs, ok) == IF ok THEN cs ELSE NoSession

\* session_manager.call_tool, lines 248-261: neither branch assigns
\* current_session
AfterCall(cs, ok) == cs

\* a call_tool that lets the exception of the gateway through
CallReturns_Propagate(t, ok) ==
  IF ok THEN Return(t, Reply(TRUE, "tool_result", <<>>))
  ELSE /\ pc' = [pc EXCEPT ![t] = "done"]
       /\ res' = [res EXCEPT ![t] = [NoRes EXCEPT !.status = "raised",
                                                  !.kind = "Exception"]]
       /\ loc' = [loc EXCEPT ![t] = NoLoc]

\* session_manager.call_tool, lines 250-261: the result of the gateway in
\* a success dictionary, or its exception in a failure dictionary
CallReturns(t, ok) ==
  Return(t, Reply(ok, IF ok THEN "tool_result" ELSE "call_error", <<>>))

\* session_manager.call_tool, lines 249-261: the fastmcp call_tool completes
CT_Call(t, ok) ==
  /\ pc[t] = "ct_call"
  /\ CallReturns(t, ok)
  /\ gw' = [gw EXCEPT ![t] = Append(@, IF ok THEN "call_tool=True"
                                       ELSE "call_tool=False")]
  /\ gwFailed' = (gwFailed \/ ~ok)
  /\ current_session' = AfterCall(current_session, ok)
  /\ UNCHANGED <<sessions, client, live, cmd, pre, gwcall, last, delivered>>

\* the call of task t raises e, which nothing in process_message or in
\* handle_chat_message (agent.py, lines 49-54) catches
Raise(t, e) ==
  /\ pc' = [pc EXCEPT ![t] = "done"]
  /\ res' = [res EXCEPT ![t] = [NoRes EXCEPT !.status = "raised", !.kind = e]]
  /\ loc' = [loc EXCEPT ![t] = NoLoc]

\* a reply of the chat handler that carries a value
ReplyValue(ok, kind, value) == [Reply(ok, kind, <<>>) EXCEPT !.value = value]

\* _handle_non_command_message, lines 41-45: the two lines of the text
\* (its apostrophe and backquotes left out)
Guidance ==
  <<"I am a Brave Search Agent that can connect to the Brave Search MCP server and call search tools.",
    "Use help to see available commands.">>

\* the texts of the chat that process_message answers without connect,
\* disconnect or a tool call
T_padded == <<" ">> \o W_hello \o <<"\n">>
ChatTexts ==
  {<<>>, W_hello, T_padded,
   W_list, Join(<<W_list, <<"n", "o", "w">>>>),
   <<"\n">> \o W_status, W_help,
   Join(<<W_schema, <<"s", "e", "a", "r", "c", "h">>>>),
   Join(<<W_schema, <<"r", "a", "w">>>>),
   Join(<<W_schema, <<"b", "a", "d">>>>),
   W_bogus,
   Join(<<W_call, <<"s", "e", "a", "r", "c", "h">>, JsonNumber>>)}

\* the tool a word names
ToolOf(word) ==
  CASE word = <<"s", "e", "a", "r", "c", "h">> -> "search"
    [] word = <<"r", "a", "w">> -> "raw"
    [] word = <<"b", "a", "d">> -> "bad"
    [] OTHER -> "other"

\* the branches of process_message that ProcessText models
TextKinds == {"non_command", "raised", "unknown", "status", "help", "list", "schema"}

\* the branch of process_message (lines 19-39) a text takes
Dispatch(text) ==
  IF ~is_command(text) THEN "non_command"
  ELSE LET parsed_command == parse_command(text)
       IN IF parsed_command.exc # "none" THEN "raised"
          ELSE parsed_command.type

\* format_tool_list, lines 44-49: properties.items() of a schema whose
\* properties is a non-empty value that is not a dictionary raises
FormatToolListRaises(tools) ==
  \E i \in DOMAIN tools :
    tools[i].hasGet /\ tools[i].schema.isDict /\ tools[i].schema.props.tag = "nondict"

\* _handle_schema_command, lines 143-149, once get_schema has given got
SchemaReply(got) ==
  IF got.exc # "none" THEN Reply(FALSE, "error", <<>>)
  ELSE IF got.schema = SchemaEmpty THEN Reply(FALSE, "error", <<>>)
  ELSE ReplyValue(TRUE, "schema_result", got.schema)

\* a text is delivered that is no connect, disconnect, call or shorthand
\* command: process_message (lines 17-39) and the handler it dispatches
\* to, up to the first await of the gateway
ProcessText(t, text, conc) ==
  /\ pc[t] = "idle"
  /\ Dispatch(text) \in TextKinds
  /\ Deliver(conc)
  /\ pre' = [pre EXCEPT ![t] = Snapshot]
  /\ LET kind == Dispatch(text)
         parsed_command == IF is_command(text) THEN parse_command(text) ELSE NoParse
         c == [NoCmd EXCEPT !.op = kind, !.text = text, !.parsed = parsed_command]
     IN CASE kind = "non_command" ->
               \* lines 19-20
               /\ Return(t, ReplyValue(TRUE, "non_command", Guidance))
               /\ cmd' = [cmd EXCEPT ![t] = c]
               /\ UNCHANGED gw
          [] kind = "raised" ->
               \* line 21: the exception of parse_command
               /\ Raise(t, parsed_command.exc)
               /\ cmd' = [cmd EXCEPT ![t] = c]
               /\ UNCHANGED gw
          [] kind = "unknown" ->
               \* lines 38-39
               /\ Return(t, ReplyValue(FALSE, "unknown_command", text))
               /\ cmd' = [cmd EXCEPT ![t] = c]
               /\ UNCHANGED gw
          [] kind = "status" ->
               \* _handle_status_command, lines 128-130
               /\ Return(t, ReplyValue(TRUE, "status",
                                       [status |-> get_status,
                                        display |-> format_status(get_status)]))
               /\ cmd' = [cmd EXCEPT ![t] = c]
               /\ UNCHANGED gw
          [] kind = "help" ->
               \* _handle_help_command, lines 132-134
               /\ Return(t, ReplyValue(TRUE, "help", parsed_command.args))
               /\ cmd' = [cmd EXCEPT ![t] = c]
               /\ UNCHANGED gw
          [] kind = "list" ->
               \* _handle_list_command, lines 62-66
               /\ IF ~is_connected
                  THEN Return(t, Reply(FALSE, "not_connected_error", <<>>))
                  ELSE IF FormatToolListRaises(list_tools)
                  THEN Raise(t, "AttributeError")
                  ELSE Return(t, ReplyValue(TRUE, "tool_list", list_tools))
               /\ cmd' = [cmd EXCEPT ![t] = c]
               /\ UNCHANGED gw
          [] kind = "schema" ->
               \* _handle_schema_command, lines 136-143, and
               \* BraveSearchClient.get_schema, lines 126-130
               LET tool_name == ToolOf(parsed_command.args[1])
               IN /\ cmd' = [cmd EXCEPT ![t] = [c EXCEPT !.tool = tool_name]]
                  /\ IF ~is_connected
                     THEN /\ Return(t, Reply(FALSE, "not_connected_error", <<>>))
                          /\ UNCHANGED gw
                     ELSE IF ~client.connected \/ client.client = NoConn
                     THEN /\ Return(t, SchemaReply(NoSchema))
                          /\ gw' = [gw EXCEPT ![t] = <<"get_schema">>]
                     ELSE /\ Await(t, "sc_list", [NoLoc EXCEPT !.conn = client.client])
                          /\ gw' = [gw EXCEPT ![t] = <<"get_schema">>]
  /\ UNCHANGED <<current_session, sessions, client, live, gwcall, last, gwFailed>>

\* BraveSearchClient.list_tools lines 98-105 and get_schema lines 131-137:
\* the fastmcp list_tools of a schema command completes; then
\* _handle_schema_command, lines 144-149
SC_List(t, ok, tools) ==
  /\ pc[t] = "sc_list"
  /\ Return(t, SchemaReply(GetSchema(IF ok THEN tools ELSE <<>>, cmd[t].tool)))
  /\ gwFailed' = (gwFailed \/ ~ok)
  /\ UNCHANGED <<current_session, sessions, client, live, cmd, pre, gw, gwcall,
                 last, delivered>>

\* BraveSearchSessionManager.call_tool(tool, args) is called, lines 242-249,
\* up to the await of the fastmcp call_tool
StartCallTool(t, tool, args, conc) ==
  /\ pc[t] = "idle"
  /\ Deliver(conc)
  /\ pre' = [pre EXCEPT ![t] = Snapshot]
  /\ CallTail(t, [NoCmd EXCEPT !.op = "call_tool", !.tool = tool, !.args = args],
              [exc |-> "unfetched", schema |-> SchemaEmpty],
              [exc |-> "none", args |-> args, alias |-> TRUE, missing |-> <<>>],
              [Now(t) EXCEPT !.gw = <<>>])
  /\ UNCHANGED <<current_session, sessions, client, live, last>>

CallOps == {"call", "shorthand"}

\* messages are handled one at a time, each by the task of its handler
Handler == CHOOSE t \in Tasks : \A u \in Tasks : t <= u
Next ==
  \/ \E url \in Urls, token \in Tokens, envvar \in EnvVarNames :
        StartConnect(Handler, url, token, envvar, FALSE)
  \/ StartDisconnect(Handler, FALSE)
  \/ \E op \in CallOps, tool \in ToolNames, args \in ArgSets :
        StartCall(Handler, op, tool, args, FALSE)
  \/ \E ok \in BOOLEAN : CC_Aenter(Handler, ok)
  \/ \E ok \in BOOLEAN, tools \in Catalogs : CC_List(Handler, ok, tools)
  \/ \E ok \in BOOLEAN, tools \in Catalogs : SL_List(Handler, ok, tools)
  \/ \E ok \in BOOLEAN, closed \in BOOLEAN : CD_Aexit(Handler, ok, closed)
  \/ \E ok \in BOOLEAN, tools \in Catalogs : GS_List(Handler, ok, tools)
  \/ \E ok \in BOOLEAN : CT_Call(Handler, ok)
  \/ \E text \in ChatTexts : ProcessText(Handler, text, FALSE)
  \/ \E ok \in BOOLEAN, tools \in Catalogs : SC_List(Handler, ok, tools)
  \/ \E args \in {EmptyDict, [q |-> "x"]} :
        StartCallTool(Handler, "search", args, FALSE)
  \/ Ack(Handler)
Spec == Init /\ [][Next]_vars

\* messages are handled concurrently, as the transport delivers them
ConcUrls == {UrlA, UrlB}
NextConc ==
  \E t \in Tasks :
    \/ \E url \in ConcUrls : StartConnect(t, url, None, None, TRUE)
    \/ StartDisconnect(t, TRUE)
    \/ \E ok \in BOOLEAN : CC_Aenter(t, ok)
    \/ \E ok \in BOOLEAN, tools \in Catalogs : CC_List(t, ok, tools)
    \/ \E ok \in BOOLEAN, tools \in Catalogs : SL_List(t, ok, tools)
    \/ \E ok \in BOOLEAN, closed \in BOOLEAN : CD_Aexit(t, ok, closed)
    \/ Ack(t)
SpecConc == Init /\ [][NextConc]_vars

\* messages are handled one at a time and every gateway operation awaited
\* eventually returns or raises
LiveUrls == {UrlA, UrlNoNetloc}
LiveTexts == {<<"\n">> \o W_status, W_list,
              Join(<<W_schema, <<"s", "e", "a", "r", "c", "h">>>>)}
AenterCompletes == \E ok \in BOOLEAN : CC_Aenter(Handler, ok)
ClientListCompletes == \E ok \in BOOLEAN : CC_List(Handler, ok, CatalogA)
SessionListCompletes == \E ok \in BOOLEAN : SL_List(Handler, ok, CatalogA)
AexitCompletes == \E ok \in BOOLEAN, closed \in BOOLEAN : CD_Aexit(Handler, ok, closed)
SchemaListCompletes == \E ok \in BOOLEAN : GS_List(Handler, ok, CatalogA)
CallCompletes == \E ok \in BOOLEAN : CT_Call(Handler, ok)
SchemaCommandListCompletes == \E ok \in BOOLEAN : SC_List(Handler, ok, CatalogA)
NextLive ==
  \/ \E url \in LiveUrls : StartConnect(Handler, url, None, None, FALSE)
  \/ StartDisconnect(Handler, FALSE)
  \/ \E args \in {EmptyDict, [q |-> "x"]} :
        StartCall(Handler, "call", "search", args, FALSE)
  \/ \E text \in LiveTexts : ProcessText(Handler, text, FALSE)
  \/ StartCallTool(Handler, "search", EmptyDict, FALSE)
  \/ AenterCompletes
  \/ ClientListCompletes
  \/ SessionListCompletes
  \/ AexitCompletes
  \/ SchemaListCompletes
  \/ CallCompletes
  \/ SchemaCommandListCompletes
  \/ Ack(Handler)
GatewayAnswers ==
  /\ WF_vars(AenterCompletes) /\ WF_vars(ClientListCompletes)
  /\ WF_vars(SessionListCompletes) /\ WF_vars(AexitCompletes)
  /\ WF_vars(SchemaListCompletes) /\ WF_vars(CallCompletes)
  /\ WF_vars(SchemaCommandListCompletes)
SpecLive == Init /\ [][NextLive]_vars /\ GatewayAnswers

\* a message has arrived and process_message parses it (chat_handler.py,
\* line 21); nothing else runs
InitParse ==
  /\ current_session = NoSession
  /\ sessions = <<>>
  /\ client = [client |-> NoConn, connected |-> FALSE, server_url |-> None,
               token |-> None]
  /\ live = {}
  /\ pc = [t \in Tasks |-> IF t = Handler THEN "received" ELSE "idle"]
  /\ \E m \in Messages :
       cmd = [t \in Tasks |-> IF t = Handler THEN [NoCmd EXCEPT !.text = m]
                                ELSE NoCmd]
  /\ loc = [t \in Tasks |-> NoLoc]
  /\ res = [t \in Tasks |-> NoRes]
  /\ pre = [t \in Tasks |-> NoPre]
  /\ gw = [t \in Tasks |-> <<>>]
  /\ gwcall = [t \in Tasks |-> NoCall]
  /\ last = NoLast
  /\ gwFailed = FALSE
  /\ delivered = 0

ParseCommand(t) ==
  /\ pc[t] = "received"
  /\ pc' = [pc EXCEPT ![t] = "parsed"]
  /\ cmd' = [cmd EXCEPT ![t].parsed = parse_command(cmd[t].text)]
  /\ UNCHANGED <<current_session, sessions, client, live, loc, res, pre, gw,
                 gwcall, last, gwFailed, delivered>>

NextParse == ParseCommand(Handler)
SpecParse == InitParse /\ [][NextParse]_vars

\* ------------------------------------------------------------ properties
\* the call of task t has returned or raised, its reply is not yet sent
Finished(t, op) == pc[t] = "done" /\ cmd[t].op = op

\* the gateway outcomes the wrappers reported to the call of task t
Reported(t, outcome) == \E i \in DOMAIN gw[t] : gw[t][i] = outcome

\* C1: a connect called while the manager is connected to a server, and
\* returning success, leaves exactly one current session: a new session
\* object for the URL of the call, reported connected by the status, the
\* session held before the call not being the current one any more
C1_ConnectReplaces ==
  \A t \in Tasks :
    (Finished(t, "connect") /\ pre[t].connected
       /\ res[t].status = "returned" /\ res[t].success)
    => /\ current_session # NoSession
       /\ current_session # pre[t].cs
       /\ get_status.connected
       /\ get_status.url = cmd[t].url
       /\ res[t].url = cmd[t].url

C1_Witness ==
  \E t \in Tasks :
    /\ Finished(t, "connect") /\ res[t].success
    /\ pre[t].connected /\ pre[t].url = UrlA /\ cmd[t].url = UrlB
    /\ get_status.url = UrlB

\* C2: when connect is called while the manager is connected, the
\* connection of the old session is closed by the time the connection of
\* the new session is open
C2_OldClosedBeforeNewOpen ==
  \A t \in Tasks :
    (cmd[t].op = "connect" /\ pre[t].connected /\ pc[t] = "cc_list")
    => pre[t].conn \notin live

\* C3: a connect whose token_env_var names a variable that is unset or
\* empty returns a failure, invokes no gateway operation and leaves the
\* manager as it was, connected if it was connected
C3_EnvMissingChangesNothing ==
  \A t \in Tasks :
    (Finished(t, "connect") /\ Truthy(cmd[t].url)
       /\ Truthy(cmd[t].token_env_var) /\ ~Truthy(EnvGet(cmd[t].token_env_var)))
    => /\ res[t].status = "returned" /\ ~res[t].success
       /\ gw[t] = <<>>
       /\ current_session = pre[t].cs
       /\ is_connected = pre[t].connected

\* C4: a call whose arguments lack a parameter the fetched schema requires
\* never reaches the gateway, and its reply is a parameter validation error
\* naming every missing parameter
C4_MissingRequiredAborts ==
  \A t \in Tasks :
    LET schema == gwcall[t].schema
        missing == SelectSeq(extract_required_params(schema),
                             LAMBDA p : p \notin DOMAIN gwcall[t].supplied)
    IN (cmd[t].op \in CallOps /\ pc[t] \in {"ct_call", "done"}
          /\ gwcall[t].fetched /\ validate_schema_structure(schema)
          /\ missing # <<>>)
       => /\ ~gwcall[t].invoked
          /\ pc[t] = "done" => /\ res[t].kind = "parameter_validation_error"
                               /\ res[t].missing = missing

\* C5: when a valid schema was fetched and no required parameter is
\* missing, the arguments passed to the gateway call are the supplied ones
\* plus the default of every non-required property that declares one and
\* that the caller left out; a supplied value is passed as supplied
C5_ReconciliationOnlyFills ==
  \A t \in Tasks :
    LET schema == gwcall[t].schema
        supplied == gwcall[t].supplied
        passed == gwcall[t].passed
        required == Range(extract_required_params(schema))
        props == schema.props.val
        filled == {p \in DOMAIN props \ (required \cup DOMAIN supplied) :
                     props[p].isDict /\ props[p].hasDefault}
    IN (cmd[t].op \in CallOps /\ gwcall[t].invoked /\ gwcall[t].fetched
          /\ validate_schema_structure(schema)
          /\ required \subseteq DOMAIN supplied)
       => /\ DOMAIN passed = DOMAIN supplied \cup filled
          /\ \A p \in DOMAIN supplied : passed[p] = supplied[p]
          /\ \A p \in filled : passed[p] = props[p].default
          /\ (cmd[t].tool = "search" /\ supplied = [q |-> "x"])
               => passed = [q |-> "x", count |-> "10"]
          /\ (cmd[t].tool = "search" /\ supplied = [q |-> "x", count |-> "5"])
               => passed = supplied

C5_Witness ==
  \E t \in Tasks :
    /\ Finished(t, "call") /\ cmd[t].tool = "search"
    /\ gwcall[t].invoked /\ gwcall[t].fetched
    /\ gwcall[t].supplied = [q |-> "x"]
    /\ gwcall[t].passed = [q |-> "x", count |-> "10"]

\* C6: a connect whose gateway connect attempt fails returns a failure
\* and leaves the manager without a session
C6_ConnectFailureDisconnected ==
  \A t \in Tasks :
    (Finished(t, "connect") /\ Reported(t, "connect=False"))
    => /\ res[t].status = "returned" /\ ~res[t].success
       /\ current_session = NoSession
       /\ ~get_status.connected

C6_Witness ==
  \E t \in Tasks :
    /\ Finished(t, "connect") /\ Reported(t, "connect=False")
    /\ pre[t].connected /\ ~res[t].success

\* C7: a disconnect never raises; called when the manager has no session
\* it is a no-op that returns a "not connected" failure; called when the
\* manager is connected and the gateway disconnect succeeds it returns
\* success; called right after a disconnect that returned success it
\* returns the "not connected" failure
C7_DisconnectIdempotent ==
  \A t \in Tasks :
    Finished(t, "disconnect")
    => /\ res[t].status = "returned"
       /\ pre[t].cs = NoSession
            => /\ ~res[t].success /\ res[t].kind = "not_connected"
               /\ gw[t] = <<>> /\ current_session = NoSession
       /\ (pre[t].connected /\ Reported(t, "disconnect=True"))
            => res[t].success /\ current_session = NoSession
       /\ (last.op = "disconnect" /\ last.success)
            => ~res[t].success /\ res[t].kind = "not_connected"

C7_Witness ==
  \E t \in Tasks :
    /\ Finished(t, "disconnect")
    /\ last.op = "disconnect" /\ last.success
    /\ res[t].kind = "not_connected"

\* C8: a disconnect whose gateway disconnect fails returns a failure and
\* leaves the manager with the session object it had before the call; when
\* the gateway disconnect succeeds the session is cleared
C8_FailedDisconnectKeepsSession ==
  \A t \in Tasks :
    /\ (Finished(t, "disconnect") /\ Reported(t, "disconnect=False"))
         => /\ ~res[t].success
            /\ current_session # NoSession
            /\ current_session = pre[t].cs
            /\ sessions[current_session].url = pre[t].url
    /\ (Finished(t, "disconnect") /\ Reported(t, "disconnect=True"))
         => current_session = NoSession

C8_Witness ==
  \E t \in Tasks :
    /\ Finished(t, "disconnect") /\ Reported(t, "disconnect=False")
    /\ current_session = pre[t].cs /\ pre[t].url = UrlA

\* C9: when no operation of the manager is in progress, the manager either
\* has no session or has a session whose connected flag is true
C9_DisconnectedOrConnected ==
  (\A t \in Tasks : pc[t] \in {"idle", "done"})
  => (current_session = NoSession \/ sessions[current_session].connected)

C9_Witness ==
  /\ AllIdle
  /\ last.op = "disconnect" /\ ~last.success
  /\ current_session # NoSession /\ sessions[current_session].connected

\* C10: once the concurrently handled messages are all answered, and no
\* gateway operation has failed, at most one gateway connection is live and
\* a live connection is the one the current session's client refers to
C10_NoRaceLeak ==
  ((\A t \in Tasks : pc[t] \in {"idle", "done"}) /\ ~gwFailed)
  => /\ Cardinality(live) <= 1
     /\ live # {} => (current_session # NoSession /\ client.client \in live)


\* the first word of the stripped text task t was sent, <<>> if none
FirstWord(t) ==
  LET w == split(cmd[t].text) IN IF w = <<>> THEN <<>> ELSE w[1]

\* the parse of the text of task t has ended, by a return or a raise
Parsed(t) == pc[t] = "parsed"

\* C14: the parse of a !call message whose argument text is not the JSON
\* text of an object (it fails to decode, or decodes to an array, number,
\* string, boolean or null) does not raise: it returns an Unknown command
\* with a diagnostic under "error"
C14_CallParseNeverRaises ==
  \A t \in Tasks :
    (Parsed(t) /\ MatchesToolArgs(strip(cmd[t].text), W_call)
       /\ JsonLoads(AfterWords(strip(cmd[t].text), 2)).kind # "dict")
    => /\ cmd[t].parsed.exc = "none"
       /\ cmd[t].parsed.type = "unknown"
       /\ "error" \in DOMAIN cmd[t].parsed.kwargs

\* C15: a disconnect, list or status command followed by any further word
\* parses to Unknown
C15_ExtraArgumentsUnknown ==
  \A t \in Tasks :
    (Parsed(t) /\ FirstWord(t) \in {W_disconnect, W_list, W_status}
       /\ Len(split(cmd[t].text)) > 1)
    => cmd[t].parsed.type = "unknown"

\* C16: a message parsed as Connect has a URL with an http or https scheme
\* and a non-empty network location (the text between the :// and the next
\* /, ? or #)
C16_ConnectUrlHasNetloc ==
  \A t \in Tasks :
    (Parsed(t) /\ cmd[t].parsed.type = "connect")
    => LET url == cmd[t].parsed.kwargs.url
           rest == IF startswith(url, SchemeHttps)
                   THEN SubSeq(url, Len(SchemeHttps) + 1, Len(url))
                   ELSE SubSeq(url, Len(SchemeHttp) + 1, Len(url))
       IN /\ startswith(url, SchemeHttp) \/ startswith(url, SchemeHttps)
          /\ rest # <<>>
          /\ Head(rest) \notin {"/", "?", "#"}

ShorthandExample == <<"!", "s", "h", "o", "r", "t", "h", "a", "n", "d", " ", "s", "e", "a", "r", "c", "h", " ", "k", "e", "y", "1", "=", "5", " ", "k", "e", "y", "2", "=", "3", ".", "1", "4", " ", "k", "e", "y", "3", "=", "t", "r", "u", "e", " ", "k", "e", "y", "4", "=", "\"", "h", "e", "l", "l", "o", " ", "w", "o", "r", "l", "d", "\"">>

\* C17: the parse of a !shorthand message never raises; each key=value pair
\* gives the key an integer when its value (quotes stripped) is all digits,
\* else a float when it is a signed decimal, else a boolean when it is
\* true or false in any case, else the value itself as a string; the
\* message `!shorthand search key1=5 key2=3.14 key3=true key4="hello world"`
\* gives {key1: 5, key2: 3.14, key3: true, key4: "hello world"}
C17_ShorthandCoercion ==
  \A t \in Tasks :
    (Parsed(t) /\ FirstWord(t) = W_shorthand)
    => /\ cmd[t].parsed.exc = "none"
       /\ cmd[t].parsed.type \in {"shorthand", "unknown"}
       /\ cmd[t].parsed.type = "shorthand" =>
            LET args == cmd[t].parsed.kwargs.args
                pairs == FindPairs(AfterWords(strip(cmd[t].text), 2))
            IN /\ DOMAIN args = {pairs[i].key : i \in DOMAIN pairs}
               /\ \A i \in DOMAIN pairs :
                    (\A j \in DOMAIN pairs : pairs[j].key = pairs[i].key => j <= i)
                    => LET raw == StripQuotes(pairs[i].value)
                           v == args[pairs[i].key]
                       IN /\ v.t \in {"int", "float", "bool", "str"}
                          /\ v.t = "int" <=> isdigit(raw)
                          /\ v.t = "float" <=> (~isdigit(raw) /\ MatchesFloat(raw))
                          /\ v.t = "bool" <=>
                               (~isdigit(raw) /\ ~MatchesFloat(raw)
                                  /\ lower(raw) \in {TextTrue, TextFalse})
                          /\ v.t = "str" => v.v = raw
       /\ cmd[t].text = ShorthandExample =>
            /\ cmd[t].parsed.type = "shorthand"
            /\ cmd[t].parsed.args = <<<<"s", "e", "a", "r", "c", "h">>>>
            /\ cmd[t].parsed.kwargs.args =
                 (<<"k", "e", "y", "1">> :> [t |-> "int", v |-> 5]
                  @@ <<"k", "e", "y", "2">> :> [t |-> "float", neg |-> FALSE, whole |-> 3,
                              frac |-> <<"1", "4">>]
                  @@ <<"k", "e", "y", "3">> :> [t |-> "bool", v |-> TRUE]
                  @@ <<"k", "e", "y", "4">> :> [t |-> "str", v |-> <<"h", "e", "l", "l", "o", " ", "w", "o", "r", "l", "d">>])

C17_Witness ==
  \E t \in Tasks :
    /\ Parsed(t) /\ cmd[t].text = ShorthandExample
    /\ cmd[t].parsed.type = "shorthand"
    /\ DOMAIN cmd[t].parsed.kwargs.args = {<<"k", "e", "y", "1">>, <<"k", "e", "y", "2">>, <<"k", "e", "y", "3">>, <<"k", "e", "y", "4">>}
    /\ cmd[t].parsed.kwargs.args[<<"k", "e", "y", "2">>].t = "float"

\* ---------------------------------------------- the replies of the chat
\* the commands that need a session, and the direct call of call_tool
NeedSession == {"call", "shorthand", "list", "schema", "call_tool"}

\* C11: a call, shorthand, list or schema command processed while the
\* manager is disconnected, and call_tool called on a disconnected manager,
\* returns a not-connected failure, invokes no gateway operation and leaves
\* the current session and the client as they were
C11_NotConnectedFailure ==
  \A t \in Tasks :
    (pc[t] = "done" /\ cmd[t].op \in NeedSession /\ ~pre[t].connected)
    => /\ res[t].status = "returned" /\ ~res[t].success
       /\ res[t].kind = IF cmd[t].op = "call_tool" THEN "call_not_connected"
                        ELSE "not_connected_error"
       /\ gw[t] = <<>> /\ ~gwcall[t].invoked
       /\ current_session = pre[t].cs
       /\ client.client = pre[t].conn
       /\ ~is_connected
C11_Witness ==
  \E t \in Tasks :
    /\ Finished(t, "call_tool") /\ ~pre[t].connected
    /\ res[t].kind = "call_not_connected" /\ gw[t] = <<>>

\* C12: a call_tool on a connected manager whose gateway call raises
\* returns a failure dictionary, no exception leaving call_tool, and the
\* manager stays connected to the session it had
C12_GatewayErrorConverted ==
  \A t \in Tasks :
    (pc[t] = "done" /\ cmd[t].op \in CallOps \cup {"call_tool"}
       /\ Reported(t, "call_tool=False"))
    => /\ pre[t].connected
       /\ res[t].status = "returned" /\ ~res[t].success
       /\ res[t].kind = "call_error"
       /\ current_session = pre[t].cs /\ is_connected
C12_Witness ==
  \E t \in Tasks :
    /\ Finished(t, "call_tool") /\ pre[t].connected
    /\ Reported(t, "call_tool=False")
    /\ res[t].kind = "call_error" /\ is_connected

\* C13: whatever the text and whatever the gateway operations do, the
\* processing of a message ends by returning a text: no exception leaves
\* process_message
C13_AlwaysReturnsText ==
  \A t \in Tasks : pc[t] = "done" => res[t].status = "returned"

\* the message of task t was a text handled by ProcessText
FromText(t) == cmd[t].op \in TextKinds

\* C18: a text that, trimmed, does not start with the prefix character is
\* no command, and its reply is the fixed guidance text whatever the
\* session state; no gateway operation is invoked and the current session
\* and the client are left as they were
C18_NonCommandGuidance ==
  \A t \in Tasks :
    (pc[t] = "done" /\ FromText(t)
       /\ ~startswith(strip(cmd[t].text), COMMAND_PREFIX))
    => /\ ~is_command(cmd[t].text)
       /\ res[t].status = "returned" /\ res[t].kind = "non_command"
       /\ res[t].value = Guidance
       /\ gw[t] = <<>>
       /\ current_session = pre[t].cs
       /\ is_connected = pre[t].connected
       /\ client.client = pre[t].conn
C18_Witness ==
  \E t \in Tasks :
    /\ pc[t] = "done" /\ cmd[t].text = T_padded /\ pre[t].connected
    /\ res[t].kind = "non_command" /\ res[t].value = Guidance
    /\ is_connected

\* token values a connect may have stored in a session
SecretTokens == {"", "tok", "envtok", "other"}

\* the session objects, the token of session i replaced by tok
WithToken(i, tok) == [sessions EXCEPT ![i].token = tok]

\* C19: the status and its display text do not depend on the value of a
\* token that is set: replacing the token of the current session by any
\* other token value gives the same status and the same text, the status
\* carries has_token (whether a token is set) and no token, and the reply
\* to a status command is that status and that text
C19_StatusHidesToken ==
  /\ (current_session # NoSession /\ sessions[current_session].token # None)
     => /\ get_status.has_token
        /\ DOMAIN get_status = {"connected", "url", "tool_count", "has_token"}
        /\ \A tok \in SecretTokens :
             /\ ManagerStatus(current_session, WithToken(current_session, tok))
                  = get_status
             /\ format_status(ManagerStatus(current_session,
                                            WithToken(current_session, tok)))
                  = format_status(get_status)
  /\ (current_session # NoSession /\ sessions[current_session].token = None)
     => ~get_status.has_token
  /\ \A t \in Tasks :
       Finished(t, "status")
       => /\ res[t].status = "returned"
          /\ res[t].value = [status |-> get_status,
                             display |-> format_status(get_status)]
C19_Witness ==
  \E t \in Tasks :
    /\ Finished(t, "status") /\ current_session # NoSession
    /\ sessions[current_session].token = "tok"
    /\ res[t].value.status.has_token
    /\ res[t].value.status.connected

\* list_tools gives the cached catalog of the current session when the
\* manager is connected and the empty sequence otherwise, and the list
\* command, which calls it, invokes no gateway operation
ListToolsCached ==
  /\ is_connected => list_tools = sessions[current_session].available_tools
  /\ ~is_connected => list_tools = <<>>
  /\ \A t \in Tasks :
       Finished(t, "list")
       => /\ gw[t] = <<>>
          /\ (pre[t].connected /\ res[t].status = "returned")
             => /\ res[t].kind = "tool_list"
                /\ res[t].value = sessions[current_session].available_tools

\* the catalog of a session object is assigned only as the list_tools of
\* its connect completes
CatalogSetAtConnect ==
  \A i \in DOMAIN sessions \cap DOMAIN sessions' :
    sessions'[i].available_tools # sessions[i].available_tools
    => \E t \in Tasks : /\ pc[t] = "sl_list" /\ pc'[t] # "sl_list"
                        /\ cmd[t].op = "connect" /\ loc[t].sess = i

\* C20: list_tools returns the cached catalog of the current session when
\* the manager is connected and an empty sequence otherwise, invoking no
\* gateway operation, and the catalog is the one fetched at connect time
C20_ListToolsCached == []ListToolsCached /\ [][CatalogSetAtConnect]_vars
C20_Witness ==
  \E t \in Tasks :
    /\ Finished(t, "list") /\ pre[t].connected
    /\ res[t].kind = "tool_list" /\ res[t].value = CatalogA
    /\ gw[t] = <<>>

\* ------------------------------------------- reconciliation and retries
\* C21: when the schema fetched for the tool of a call or shorthand command
\* is not structurally valid (no mapping, no properties mapping, or a
\* required that is no sequence), the gateway call is invoked with exactly
\* the arguments the user supplied, and the reply is the result of that
\* call, not an error about the schema
C21_InvalidSchemaSkipsReconciliation ==
  \A t \in Tasks :
    LET schema == gwcall[t].schema
    IN (cmd[t].op \in CallOps /\ pc[t] \in {"ct_call", "done"}
          /\ gwcall[t].fetched
          /\ ~(schema.isDict /\ schema.props.tag = "dict"
                /\ schema.required.tag # "nonlist"))
       => /\ gwcall[t].invoked
          /\ gwcall[t].passed = gwcall[t].supplied
          /\ pc[t] = "done"
             => /\ res[t].status = "returned"
                /\ res[t].kind \in {"tool_result", "call_error"}
                /\ Reported(t, "call_tool=True") => res[t].kind = "tool_result"
C21_Witness ==
  \E t \in Tasks :
    /\ Finished(t, "call") /\ cmd[t].tool = "bad"
    /\ gwcall[t].fetched /\ ~validate_schema_structure(gwcall[t].schema)
    /\ gwcall[t].supplied = [q |-> "x"] /\ gwcall[t].passed = [q |-> "x"]
    /\ res[t].kind = "tool_result"

\* how many times the call of task t has invoked the gateway operation op
Attempts(t, op) == Cardinality({i \in DOMAIN gw[t] : gw[t][i] = op})

\* C22: no retries. A call of connect makes at most one gateway connect
\* attempt, and exactly one once it has a URL and its token is resolved; a
\* disconnect with a current session makes exactly one gateway disconnect
\* attempt; a call or shorthand command, or a call of call_tool, invokes the
\* gateway call_tool at most once; a gateway failure is returned to the
\* caller as a failure, with that one attempt made
C22_NoRetries ==
  \A t \in Tasks :
    /\ Attempts(t, "connect") <= 1
    /\ Attempts(t, "disconnect") <= 1
    /\ Attempts(t, "call_tool") <= 1
    /\ (Finished(t, "connect") /\ Truthy(cmd[t].url)
          /\ (Truthy(cmd[t].token_env_var) => Truthy(EnvGet(cmd[t].token_env_var))))
       => Attempts(t, "connect") = 1
    /\ (Finished(t, "disconnect") /\ pre[t].cs # NoSession)
       => Attempts(t, "disconnect") = 1
    /\ (pc[t] = "done" /\ cmd[t].op \in {"connect", "disconnect"}
          /\ Reported(t, cmd[t].op \o "=False"))
       => (res[t].status = "returned" /\ ~res[t].success)
    /\ (pc[t] = "done" /\ Reported(t, "call_tool=False"))
       => (res[t].status = "returned" /\ ~res[t].success)
C22_Witness ==
  \E t \in Tasks :
    /\ Finished(t, "connect") /\ pre[t].connected
    /\ Reported(t, "connect=False") /\ ~res[t].success
    /\ Attempts(t, "connect") = 1 /\ Attempts(t, "disconnect") = 1

\* --------------------------------------------- the manager and the client
\* C23: whenever no operation is in progress, the manager is connected
\* exactly when the gateway client is connected
C23_ManagerClientAgree ==
  (\A t \in Tasks : pc[t] \in {"idle", "done"})
  => (is_connected <=> (client.connected /\ client.client # NoConn))

\* C24: with messages handled concurrently, a connect always ends by
\* returning a result, whatever disconnect or connect ran while it awaited
\* the gateway, and when the result is a success the manager is connected
\* with a current session
C24_ConnectNeverRaises ==
  \A t \in Tasks :
    Finished(t, "connect")
    => /\ res[t].status = "returned"
       /\ res[t].success => (current_session # NoSession /\ is_connected)

\* C25: a connect that returns success names the URL it was called with,
\* the status that follows reports that URL, and the tool count it returns
\* is the length of the catalog list_tools gives and the tool count of the
\* status
C25_ConnectSelfConsistent ==
  \A t \in Tasks :
    (Finished(t, "connect") /\ res[t].status = "returned" /\ res[t].success)
    => /\ res[t].url = cmd[t].url
       /\ get_status.connected
       /\ get_status.url = cmd[t].url
       /\ res[t].tool_count = Len(list_tools)
       /\ res[t].tool_count = get_status.tool_count
C25_Witness ==
  \E t \in Tasks :
    /\ Finished(t, "connect") /\ res[t].success /\ cmd[t].url = UrlB
    /\ res[t].url = UrlB /\ get_status.url = UrlB
    /\ list_tools = CatalogA /\ res[t].tool_count = 3

\* the last call that returned was a disconnect that failed at the gateway
AfterFailedDisconnect ==
  last.op = "disconnect" /\ ~last.success /\ current_session # NoSession

\* C26: after a disconnect that fails at the gateway the manager is still
\* connected: is_connected is true and the status reports connected with
\* the URL it had, the gateway client still holds its connection, a
\* call_tool that follows is handed to the gateway (it is not refused as
\* not connected) and a disconnect that follows attempts the gateway
\* disconnect again
C26_FailedDisconnectStaysConnected ==
  /\ \A t \in Tasks :
       (Finished(t, "disconnect") /\ Reported(t, "disconnect=False"))
       => /\ is_connected
          /\ get_status.connected /\ get_status.url = pre[t].url
          /\ client.connected /\ client.client = pre[t].conn
  /\ (AllIdle /\ AfterFailedDisconnect)
     => (is_connected /\ client.connected /\ client.client # NoConn)
  /\ \A t \in Tasks :
       (AfterFailedDisconnect /\ cmd[t].op = "call_tool" /\ pc[t] # "idle")
       => /\ pc[t] \in {"ct_call", "done"}
          /\ gwcall[t].invoked /\ Attempts(t, "call_tool") = 1
          /\ pc[t] = "done"
             => /\ res[t].kind \in {"tool_result", "call_error"}
                /\ Reported(t, "call_tool=True") \/ Reported(t, "call_tool=False")
  /\ \A t \in Tasks :
       (last.op = "disconnect" /\ ~last.success /\ pre[t].cs # NoSession
          /\ cmd[t].op = "disconnect" /\ pc[t] # "idle")
       => /\ pc[t] \in {"cd_aexit", "done"}
          /\ Attempts(t, "disconnect") = 1
          /\ pre[t].conn # NoConn
          /\ pc[t] = "done"
             => (res[t].kind \in {"disconnected", "disconnect_failed"})
C26_Witness ==
  \E t \in Tasks :
    /\ AfterFailedDisconnect /\ Finished(t, "call_tool")
    /\ res[t].kind = "tool_result" /\ Reported(t, "call_tool=True")
    /\ get_status.url = UrlA

\* ------------------------------------------------------- frame conditions
\* C27: handling a call or shorthand command leaves the argument mapping
\* of the parsed command as it was, and the mapping the remote tool
\* receives has exactly the keys of the reconciled mapping, whether or not
\* a token is set
C27_ParsedCommandUntouched ==
  \A t \in Tasks :
    (cmd[t].op \in CallOps /\ pc[t] \in {"ct_call", "done"} /\ gwcall[t].invoked)
    => /\ cmd[t].args = gwcall[t].supplied
       /\ (pc[t] = "ct_call" \/ Reported(t, "call_tool=True"))
          => DOMAIN gwcall[t].wire = DOMAIN gwcall[t].passed

\* the current session as the manager sees it: which object it is, and its
\* connected flag, URL, token and cached catalog
ManagerView ==
  IF current_session = NoSession THEN <<NoSession>>
  ELSE <<current_session, sessions[current_session]>>

\* a step of the handling of a message that is neither connect nor
\* disconnect, its acknowledgement included
ReadOnlyStep ==
  \E t \in Tasks :
    /\ pc'[t] # pc[t]
    /\ cmd[t].op \notin {"connect", "disconnect"}
    /\ cmd'[t].op \notin {"connect", "disconnect"}

\* C28: handling status, help, list, schema, an unknown command, a text
\* that is no command, or a call or shorthand command (whatever the
\* gateway answers) leaves the current session and its connected flag,
\* URL, token and cached catalog as they were
C28_ReadOnlyKeepSession == [][ReadOnlyStep => ManagerView' = ManagerView]_vars
C28_Witness ==
  \E t \in Tasks :
    /\ Finished(t, "shorthand") /\ Reported(t, "call_tool=False")
    /\ current_session # NoSession /\ current_session = pre[t].cs
    /\ sessions[current_session].available_tools = CatalogA

\* C29: after a connect that succeeds, the token of the session is the
\* value of the environment variable when token_env_var was given, the
\* inline token being ignored, and the inline token otherwise; has_token of
\* the status is true exactly when one of the two supplied a token
C29_EnvTokenWins ==
  \A t \in Tasks :
    (Finished(t, "connect") /\ res[t].status = "returned" /\ res[t].success)
    => /\ Truthy(cmd[t].token_env_var)
            => sessions[current_session].token = EnvGet(cmd[t].token_env_var)
       /\ ~Truthy(cmd[t].token_env_var)
            => sessions[current_session].token = cmd[t].token
       /\ get_status.has_token
            <=> (Truthy(cmd[t].token_env_var) \/ cmd[t].token # None)
C29_Witness ==
  \E t \in Tasks :
    /\ Finished(t, "connect") /\ res[t].success
    /\ cmd[t].token = "tok" /\ cmd[t].token_env_var = "BRAVE_TOKEN"
    /\ sessions[current_session].token = "envtok"
    /\ get_status.has_token

\* ---------------------------------------------------------------- progress
\* the handling of a message is awaiting the gateway
Awaiting(t) == pc[t] \notin {"idle", "done"}

\* a connect that follows a disconnect which succeeded (or any connect, in
\* whatever state the manager was) gets as far as the gateway when it has
\* a URL, and ends connected when the gateway connect succeeds
CanConnectAgain ==
  \A t \in Tasks :
    Finished(t, "connect")
    => /\ Truthy(cmd[t].url) => Attempts(t, "connect") = 1
       /\ Reported(t, "connect=True")
            => (res[t].status = "returned" /\ res[t].success /\ is_connected)

\* C30: if every gateway operation awaited eventually returns or raises,
\* the handling of every message eventually ends; and in whatever state
\* the manager is, a disconnect whose gateway call succeeds leaves it
\* disconnected and a connect whose gateway call succeeds leaves it
\* connected, so that it can always connect again
C30_Progress ==
  /\ \A t \in Tasks : Awaiting(t) ~> (pc[t] = "done")
  /\ [](CanConnectAgain
        /\ \A t \in Tasks :
             (Finished(t, "disconnect") /\ Reported(t, "disconnect=True"))
             => (res[t].success /\ ~is_connected))
C30_Witness ==
  \E t \in Tasks :
    /\ Finished(t, "connect") /\ Reported(t, "connect=True")
    /\ last.op = "disconnect" /\ last.success
    /\ res[t].success /\ is_connected

====
